---- MODULE Spec2Model ----
(***************************************************************************)
(* Model of the search service's adaptive field-resolution cache, its      *)
(* execute-detect-retry protocol (search path and filter-listing path),    *)
(* the concurrent access to the cache, and the seven-way fan-out join.     *)
(*                                                                         *)
(* Strings are sequences of symbols.  A symbol is one character ("a", "b", *)
(* " ", "[", "]", "x") or one of three fixed multi-character pieces of     *)
(* text: the two signature phrases and the suffix ".keyword".              *)
(***************************************************************************)
EXTENDS Integers, Naturals, Sequences, FiniteSets, TLC

VARIABLES
    cache,      \* aggregationFieldOverrides: field -> override
    pc,         \* position of the request being served
    query,      \* the aggregation key of the request being served
    attempt,    \* loop counter of the retry loop
    calls,      \* backend calls issued by the current retry-protocol invocation
    lastResp,   \* lastResp of executeSearchWithRetry / elasticResp of ListFilters
    lastBody,   \* lastBody of executeSearchWithRetry / body of ListFilters
    docs,       \* query documents built by the current invocation, in order
    seen,       \* per attempt: the backend outcome and the cache before/after it
    pairs,      \* ListFilters: filterRequest.Filters
    pairIdx,    \* ListFilters: index of the pair being processed
    allFilters, \* ListFilters: the output list
    procs,      \* concurrent cache users: per process its task and position
    rw,         \* aggregationFieldOverridesMu: writer and readers
    branch,     \* SearchGeneric: per entity type the branch goroutine's state
    results,    \* SearchGeneric: the results map
    joined,     \* SearchGeneric: loop counter i of the join loop
    fanResponse, \* SearchGeneric: what c.JSON has sent, if anything
    fanQuery,   \* SearchGeneric: the Query bound from the request
    call,       \* a function under study: its name and arguments
    ret,        \* its return value, once it has returned
    sinkEnv,    \* the value of SEARCH_EXPLANATION_EXTRACTOR
    xs,         \* one entity search: its position and locals
    forwards    \* the detached extractExplanation tasks started so far

vars == <<cache, pc, query, attempt, calls, lastResp, lastBody, docs, seen,
          pairs, pairIdx, allFilters, procs, rw, branch, results, joined,
          fanResponse, fanQuery, call, ret, sinkEnv, xs, forwards>>

concVars == <<procs, rw>>
fanVars  == <<branch, results, joined, fanResponse, fanQuery>>
pureVars == <<call, ret>>
sinkVars == <<sinkEnv, xs, forwards>>

(***************************************************************************)
(* Text.                                                                   *)
(***************************************************************************)
TFO == "Text fields are not optimised"
FDD == "Fielddata is disabled"
KW  == ".keyword"
SP  == " "
LB  == "["
RB  == "]"

\* strings.Contains(s, piece) for a piece that is one symbol of the model
Contains(s, piece) == \E i \in 1..Len(s) : s[i] = piece

\* strings.Contains(s, " "): the signature phrases contain spaces themselves
ContainsSpace(s) == \E i \in 1..Len(s) : s[i] \in {SP, TFO, FDD}

\* strings.TrimSpace
RECURSIVE TrimSpace(_)
TrimSpace(s) ==
    IF s = <<>> THEN s
    ELSE IF Head(s) = SP THEN TrimSpace(Tail(s))
    ELSE IF s[Len(s)] = SP THEN TrimSpace(SubSeq(s, 1, Len(s) - 1))
    ELSE s

\* strings.TrimSuffix(s, ".keyword")
TrimSuffixKeyword(s) ==
    IF Len(s) > 0 /\ s[Len(s)] = KW THEN SubSeq(s, 1, Len(s) - 1) ELSE s

\* fmt.Sprintf("%s.keyword", field)
SprintfKeyword(field) == Append(field, KW)

\* fielddataRegex.FindAllStringSubmatch(reason, -1), keeping match[1] of each
\* match: leftmost non-overlapping "[" + one or more non-bracket symbols + "]"
RECURSIVE FindAllFrom(_, _)
FindAllFrom(s, i) ==
    IF i > Len(s) THEN <<>>
    ELSE IF s[i] # LB THEN FindAllFrom(s, i + 1)
    ELSE LET later == {j \in (i + 1)..Len(s) : s[j] \in {LB, RB}}
         IN  IF later = {} THEN <<>>
             ELSE LET j == CHOOSE k \in later : \A m \in later : k <= m
                  IN  IF s[j] = RB /\ j > i + 1
                      THEN <<SubSeq(s, i + 1, j - 1)>> \o FindAllFrom(s, j + 1)
                      ELSE FindAllFrom(s, i + 1)

fielddataRegex(s) == FindAllFrom(s, 1)

(***************************************************************************)
(* FieldOverrideCache.                                                     *)
(***************************************************************************)
EmptyCache == <<>>

resolveAggregationFieldBare(c, key) == key

resolveAggregationField(c, key) ==
    IF key \in DOMAIN c THEN c[key] ELSE key

setAggregationFieldOverrideToggle(c, key, override) ==
    IF key \in DOMAIN c
    THEN [k \in DOMAIN c \ {key} |-> c[k]]
    ELSE [k \in DOMAIN c \cup {key} |-> IF k = key THEN override ELSE c[k]]

setAggregationFieldOverride(c, key, override) ==
    IF key \in DOMAIN c /\ c[key] = override
    THEN c
    ELSE [k \in DOMAIN c \cup {key} |-> IF k = key THEN override ELSE c[k]]

(***************************************************************************)
(* Backend responses.  A body is empty, not valid JSON, or a JSON object   *)
(* with the members the decoders read: hits.hits (null or a list),         *)
(* aggregations, and error.  errMembers says what the error object holds:  *)
(* nothing, only list-valued members (root_cause), or root_cause beside    *)
(* members that are no lists ("type": "...", "reason": "...").             *)
(***************************************************************************)
NilHits == [isNil |-> TRUE, list |-> <<>>]
Hits(l) == [isNil |-> FALSE, list |-> l]
Hit1    == [id |-> "h1", explanation |-> "expl", source |-> "doc"]
\* a hit that came without _explanation
Hit2    == [id |-> "h2", explanation |-> "null", source |-> "doc2"]

\* a decoded JSON value: a leaf (string, number, null) or an object
Leaf(s) == [isMap |-> FALSE, leaf |-> s, m |-> <<>>]
MapV(f) == [isMap |-> TRUE, leaf |-> "", m |-> f]
Null    == Leaf("null")

StartDate == <<"startDate">>
EndDate   == <<"endDate">>

NoAggs       == <<>>
TermsAggs    == <<"a">> :> MapV(<<"buckets">> :> Leaf("x"))
DateAggs     == (StartDate :> MapV(<<"value">> :> Leaf("2001")))
                @@ (EndDate :> MapV(<<"value_as_string">> :> Leaf("2020")))
HalfDateAggs == StartDate :> MapV(<<"value">> :> Leaf("2001"))

\* the zero value of SearchResponse
ZeroResponse == [hits |-> NilHits, aggs |-> NoAggs]

EmptyBody     == [kind |-> "empty", hits |-> NilHits, aggs |-> NoAggs,
                  errMembers |-> "absent", rootCauses |-> <<>>]
MalformedBody == [kind |-> "malformed", hits |-> NilHits, aggs |-> NoAggs,
                  errMembers |-> "absent", rootCauses |-> <<>>]
JsonBody(h, a, e, rc) == [kind |-> "json", hits |-> h, aggs |-> a,
                          errMembers |-> e, rootCauses |-> rc]

\* len(body)
BodyLen(body) == IF body.kind = "empty" THEN 0 ELSE 1

\* json.Unmarshal(body, &elasticResp), its error ignored: invalid JSON leaves
\* the zero value, members of another type are skipped
UnmarshalSearchResponse(body) ==
    IF body.kind = "json" THEN [hits |-> body.hits, aggs |-> body.aggs]
    ELSE ZeroResponse

\* json.Unmarshal(body, &elasticError): a syntax error, or an UnmarshalTypeError
\* for a member of "error" that is no list of root causes
UnmarshalSearchErrorResponse(body) ==
    [err   |-> body.kind # "json" \/ body.errMembers = "withOthers",
     error |-> IF body.kind = "json" /\ body.errMembers # "absent"
               THEN [root_cause |-> body.rootCauses] ELSE <<>>]

(***************************************************************************)
(* Error recovery.                                                         *)
(***************************************************************************)
HasSignaturePhraseAny(reason) == TRUE

HasSignaturePhrase(reason) == Contains(reason, TFO) \/ Contains(reason, FDD)

\* lines 140-166: the loop over the matches of one reason; st = [updated, cache]
\* the loop left after its first iteration
MatchLoopFirstOnly(matches, st) ==
    IF matches = <<>> THEN st
    ELSE LET field0 == TrimSpace(Head(matches)) IN
         IF field0 = <<>> \/ ContainsSpace(field0) THEN st
         ELSE LET field    == TrimSuffixKeyword(field0)
                  override == SprintfKeyword(field)
              IN  IF field \in DOMAIN st.cache THEN [st EXCEPT !.updated = TRUE]
                  ELSE [updated |-> TRUE,
                        cache   |-> setAggregationFieldOverride(st.cache, field, override)]

RECURSIVE MatchLoopUntrimmedOverride(_, _)
MatchLoopUntrimmedOverride(matches, st) ==
    IF matches = <<>> THEN st
    ELSE LET field0 == TrimSpace(Head(matches)) IN
         IF field0 = <<>> \/ ContainsSpace(field0)
         THEN MatchLoopUntrimmedOverride(Tail(matches), st)
         ELSE LET field    == TrimSuffixKeyword(field0)
                  override == SprintfKeyword(field0)
              IN  IF field \in DOMAIN st.cache
                  THEN MatchLoopUntrimmedOverride(Tail(matches),
                           [st EXCEPT !.updated = TRUE])
                  ELSE MatchLoopUntrimmedOverride(Tail(matches),
                           [updated |-> TRUE,
                            cache   |-> setAggregationFieldOverride(st.cache, field, override)])

RECURSIVE MatchLoopSkipExisting(_, _)
MatchLoopSkipExisting(matches, st) ==
    IF matches = <<>> THEN st
    ELSE LET field0 == TrimSpace(Head(matches)) IN
         IF field0 = <<>> \/ ContainsSpace(field0)
         THEN MatchLoopSkipExisting(Tail(matches), st)
         ELSE LET field    == TrimSuffixKeyword(field0)
                  override == SprintfKeyword(field)
              IN  IF field \in DOMAIN st.cache
                  THEN MatchLoopSkipExisting(Tail(matches), st)
                  ELSE MatchLoopSkipExisting(Tail(matches),
                           [updated |-> TRUE,
                            cache   |-> setAggregationFieldOverride(st.cache, field, override)])

RECURSIVE MatchLoop(_, _)
MatchLoop(matches, st) ==
    IF matches = <<>> THEN st
    ELSE LET field0 == TrimSpace(Head(matches)) IN
         IF field0 = <<>> \/ ContainsSpace(field0)
         THEN MatchLoop(Tail(matches), st)
         ELSE LET field    == TrimSuffixKeyword(field0)
                  override == SprintfKeyword(field)
              IN  IF field \in DOMAIN st.cache
                  THEN MatchLoop(Tail(matches), [st EXCEPT !.updated = TRUE])
                  ELSE MatchLoop(Tail(matches),
                           [updated |-> TRUE,
                            cache   |-> setAggregationFieldOverride(st.cache, field, override)])

\* lines 133-167: the loop over the root causes
RECURSIVE CauseLoop(_, _)
CauseLoop(causes, st) ==
    IF causes = <<>> THEN st
    ELSE IF ~HasSignaturePhrase(Head(causes))
         THEN CauseLoop(Tail(causes), st)
         ELSE CauseLoop(Tail(causes), MatchLoop(fielddataRegex(Head(causes)), st))

\* the result is [updated, cache]: the return value and the cache afterwards
updateAggregationOverridesFromError(c, body) ==
    LET unchanged == [updated |-> FALSE, cache |-> c]
        decoded   == UnmarshalSearchErrorResponse(body)
    IN  IF BodyLen(body) = 0 THEN unchanged
        ELSE IF decoded.err THEN unchanged
        ELSE IF "root_cause" \notin DOMAIN decoded.error
                \/ Len(decoded.error.root_cause) = 0 THEN unchanged
        ELSE CauseLoop(decoded.error.root_cause, unchanged)

(***************************************************************************)
(* One backend call.  What the backend does is an input: the call fails,   *)
(* yields no response, or yields a status and a body whose read may fail.  *)
(***************************************************************************)
Outcome(t, s, b) == [transport |-> t, status |-> s, body |-> b]

\* the result is [resp, body]
executeElasticQuery(o) ==
    IF o.transport = "error" THEN [resp |-> ZeroResponse, body |-> EmptyBody]
    ELSE IF o.transport = "nil" THEN [resp |-> ZeroResponse, body |-> EmptyBody]
    ELSE IF o.transport = "readError" THEN [resp |-> ZeroResponse, body |-> o.body]
    ELSE [resp |-> UnmarshalSearchResponse(o.body), body |-> o.body]

(***************************************************************************)
(* Inputs: field names, reason strings, bodies, backend outcomes.          *)
(***************************************************************************)
FieldA == <<"a">>
FieldB == <<"b">>
DateRange == <<"dateRange">>
PublicationDate == <<"publicationDate">>
PopulationSize == <<"populationSize">>

AggKeys == {FieldA, FieldB, DateRange}

\* reason strings of root causes: with and without a signature phrase, and
\* with each shape of bracketed token the recovery treats differently
Reasons ==
    { <<FDD, SP, LB, "a", RB>>,                     \* ... [a]
      <<TFO, SP, LB, "a", KW, RB, SP, "x">>,        \* ... [a.keyword] x
      <<FDD, SP, LB, SP, "b", SP, RB>>,             \* ... [ b ]
      <<FDD, SP, LB, "a", RB, SP, LB, "b", RB>>,    \* ... [a] [b]
      <<FDD, SP, LB, KW, RB>>,                      \* ... [.keyword]
      <<FDD, SP, LB, LB, "b", RB>>,                 \* ... [[b]
      <<FDD, SP, "a">>,                             \* no bracketed token
      <<TFO, SP, LB, RB>>,                          \* ... []
      <<FDD, SP, LB, SP, RB>>,                      \* ... [ ]
      <<FDD, SP, LB, "a", SP, "b", RB>>,            \* ... [a b]
      <<"x", SP, LB, "a", RB>> }                    \* no signature phrase

\* a signature phrase in one root cause, the bracketed token in another
SplitCauses == { <<<<FDD, SP>>, <<"x", SP, LB, "a", RB>>>>,
                 <<<<"x", SP, LB, "b", RB>>, <<TFO, SP, LB, "a", RB>>>> }

CauseLists == {<<>>} \cup {<<r>> : r \in Reasons} \cup SplitCauses

\* error bodies as the backend sends them, bodies of successful searches and
\* aggregations, and bodies that carry both data and a recoverable error
ErrorBodies   == {JsonBody(NilHits, NoAggs, "rootCauseOnly", rc) : rc \in CauseLists}
                 \cup {JsonBody(NilHits, NoAggs, "withOthers", rc) :
                          rc \in { <<>>, <<<<FDD, SP, LB, "a", RB>>>>,
                                   <<<<FDD, SP, LB, SP, "b", SP, RB>>>>,
                                   <<<<FDD, SP, "a">>>> }}
SuccessBodies == {JsonBody(h, a, "absent", <<>>) :
                      h \in {NilHits, Hits(<<>>), Hits(<<Hit1>>)},
                      a \in {NoAggs, TermsAggs}}
                 \cup {JsonBody(NilHits, a, "absent", <<>>) :
                      a \in {DateAggs, HalfDateAggs}}
MixedBodies   == {JsonBody(h, TermsAggs, "rootCauseOnly", <<<<FDD, SP, LB, "b", RB>>>>) :
                      h \in {NilHits, Hits(<<Hit1>>)}}

Bodies == {EmptyBody, MalformedBody} \cup ErrorBodies \cup SuccessBodies \cup MixedBodies

\* a failed read hands back what was read so far: nothing, a cut (invalid)
\* document, or a whole document whose end of stream was not seen
PartialBodies == {EmptyBody, MalformedBody,
                  JsonBody(NilHits, NoAggs, "rootCauseOnly", <<<<FDD, SP, LB, "a", RB>>>>)}

\* the status lines the backend sends with a body: 200 with data, 400 with an
\* error; one recoverable error body and the mixed bodies come with either
StatusOf(b) ==
    IF b \in SuccessBodies THEN {200}
    ELSE IF b \in MixedBodies \cup {MalformedBody, EmptyBody} THEN {200, 400}
    ELSE IF b = JsonBody(NilHits, NoAggs, "rootCauseOnly", <<<<FDD, SP, LB, "a", RB>>>>)
    THEN {200, 400}
    ELSE {400}

Outcomes ==
    {Outcome("error", 0, EmptyBody), Outcome("nil", 0, EmptyBody)}
    \cup {Outcome("readError", s, b) : s \in {200, 400}, b \in PartialBodies}
    \cup UNION {{Outcome("ok", s, b) : s \in StatusOf(b)} : b \in Bodies}

(***************************************************************************)
(* Query documents: the aggregation clause built for one key.              *)
(***************************************************************************)
\* math.Pow(b, n) for whole numbers
RECURSIVE Pow(_, _)
Pow(b, n) == IF n = 0 THEN 1 ELSE b * Pow(b, n - 1)

\* the loop of populationRanges from i on: one bucket is appended per
\* iteration, without a key
RECURSIVE RangesLoop(_, _)
RangesLoop(i, ranges) ==
    IF i < 9
    THEN RangesLoop(i + 1, Append(ranges, [from |-> Pow(10, i), to |-> Pow(10, i + 1)]))
    ELSE ranges

\* the loop started at 1
populationRangesFromOne ==
    RangesLoop(1, <<[from |-> -1, to |-> 1, key |-> "Unreported"]>>)

populationRanges ==
    RangesLoop(0, <<[from |-> -1, to |-> 1, key |-> "Unreported"]>>)

\* buildAggregations lines 1634-1652 and filtersRequest lines 198-244
AggClause(c, k) ==
    IF k = DateRange THEN [key |-> k, kind |-> "dates", field |-> StartDate]
    ELSE IF k = PublicationDate THEN [key |-> k, kind |-> "dates", field |-> k]
    ELSE IF k = PopulationSize
    THEN [key |-> k, kind |-> "range", field |-> k, ranges |-> populationRanges]
    ELSE [key |-> k, kind |-> "terms", field |-> resolveAggregationField(c, k)]

\* the closure handed to executeSearchWithRetry: the query is fixed, the cache
\* is read at each call
buildQueryOnce(c, q) == AggClause(EmptyCache, q)

buildQuery(c, q) == AggClause(c, q)

filtersRequest(c, filter) == AggClause(c, filter.keys)

\* safeAggValue: [ok, value]
safeAggValue(aggs, key) ==
    IF key \notin DOMAIN aggs \/ aggs[key] = Null \/ ~aggs[key].isMap
    THEN [ok |-> FALSE, value |-> ""]
    ELSE LET aggMap == aggs[key].m IN
         IF <<"value_as_string">> \in DOMAIN aggMap
            /\ ~aggMap[<<"value_as_string">>].isMap
            /\ aggMap[<<"value_as_string">>].leaf \notin {"", "null"}
         THEN [ok |-> TRUE, value |-> aggMap[<<"value_as_string">>].leaf]
         ELSE IF <<"value">> \in DOMAIN aggMap /\ aggMap[<<"value">>] # Null
         THEN [ok |-> TRUE, value |-> aggMap[<<"value">>].leaf]
         ELSE [ok |-> FALSE, value |-> ""]

(***************************************************************************)
(* The retry protocol of the search path, one loop iteration per step.     *)
(***************************************************************************)
\* no request is being served
Idle ==
    /\ pc = "idle"
    /\ query = FieldA
    /\ attempt = 0
    /\ calls = 0
    /\ lastResp = ZeroResponse
    /\ lastBody = EmptyBody
    /\ docs = <<>>
    /\ seen = <<>>
    /\ pairs = <<>>
    /\ pairIdx = 1
    /\ allFilters = <<>>

\* the handler has returned: its locals are gone
ResetRequest ==
    /\ pc' = "idle"
    /\ query' = FieldA
    /\ attempt' = 0
    /\ calls' = 0
    /\ lastResp' = ZeroResponse
    /\ lastBody' = EmptyBody
    /\ docs' = <<>>
    /\ seen' = <<>>
    /\ pairs' = <<>>
    /\ pairIdx' = 1
    /\ allFilters' = <<>>

\* what one iteration saw: the backend's outcome, the response and body the
\* call handed back, the cache before and after, and whether the body was
\* handed to updateAggregationOverridesFromError
Seen(o, resp, body, before, after, inspected) ==
    [outcome |-> o, resp |-> resp, body |-> body,
     before |-> before, after |-> after, inspected |-> inspected]

StartSearch(k) ==
    /\ pc = "idle"
    /\ pc' = "search"
    /\ query' = k
    /\ attempt' = 0
    /\ calls' = 0
    /\ lastResp' = ZeroResponse
    /\ lastBody' = EmptyBody
    /\ docs' = <<>>
    /\ seen' = <<>>
    /\ UNCHANGED <<cache, pairs, pairIdx, allFilters, concVars, pureVars, sinkVars, fanVars>>

SearchAttemptLimitThree == 2 + 1

\* how many iterations the loop of executeSearchWithRetry may run
SearchAttemptLimit == 2

\* lines 105-111: the iteration's verdict [retry, cache]
SearchVerdictNoHitsCheck(c, r) ==
    LET u == updateAggregationOverridesFromError(c, r.body)
    IN  [retry |-> u.updated, cache |-> u.cache]

SearchVerdictRetryOnNilHits(c, r) ==
    IF ~r.resp.hits.isNil THEN [retry |-> FALSE, cache |-> c]
    ELSE [retry |-> TRUE,
          cache |-> updateAggregationOverridesFromError(c, r.body).cache]

SearchVerdict(c, r) ==
    IF ~r.resp.hits.isNil \/ BodyLen(r.body) = 0
    THEN [retry |-> FALSE, cache |-> c]
    ELSE LET u == updateAggregationOverridesFromError(c, r.body)
         IN  [retry |-> u.updated, cache |-> u.cache]

\* lines 100-112: one iteration of executeSearchWithRetry
SearchAttempt(o) ==
    /\ pc = "search"
    /\ attempt < SearchAttemptLimit
    /\ LET r == executeElasticQuery(o)
           v == SearchVerdict(cache, r)
       IN  /\ docs' = Append(docs, buildQuery(cache, query))
           /\ calls' = calls + 1
           /\ lastResp' = r.resp
           /\ lastBody' = r.body
           /\ cache' = v.cache
           /\ seen' = Append(seen, Seen(o, r.resp, r.body, cache, v.cache,
                                        r.resp.hits.isNil /\ BodyLen(r.body) # 0))
           /\ attempt' = IF v.retry THEN attempt + 1 ELSE attempt
           /\ pc' = IF v.retry /\ attempt + 1 < SearchAttemptLimit
                    THEN "search" ELSE "searchDone"
    /\ UNCHANGED <<query, pairs, pairIdx, allFilters, concVars, pureVars, sinkVars, fanVars>>

\* line 114
SearchReturn ==
    /\ pc = "searchDone"
    /\ ResetRequest
    /\ UNCHANGED <<cache, concVars, pureVars, sinkVars, fanVars>>

(***************************************************************************)
(* ListFilters: the loop over the pairs, and per pair the retry loop, one  *)
(* loop iteration per step.                                                *)
(***************************************************************************)
MaxPairs == 2

PairChoices == { [type |-> "dataset", keys |-> FieldA],
                 [type |-> "paper",   keys |-> DateRange] }

FilterRequests == UNION {[1..n -> PairChoices] : n \in 0..MaxPairs}

StartListFilters(ps) ==
    /\ pc = "idle"
    /\ pc' = IF ps = <<>> THEN "filtersDone" ELSE "filter"
    /\ pairs' = ps
    /\ pairIdx' = 1
    /\ allFilters' = <<>>
    /\ attempt' = 0
    /\ calls' = 0
    /\ lastResp' = ZeroResponse
    /\ lastBody' = EmptyBody
    /\ docs' = <<>>
    /\ seen' = <<>>
    /\ UNCHANGED <<cache, query, concVars, pureVars, sinkVars, fanVars>>

\* lines 106-113 and 136-143: attempt == 0 && updateAggregationOverridesFromError(body)
FilterRetryAnyAttempt(c, att, body) ==
    LET u == updateAggregationOverridesFromError(c, body)
    IN  [retry |-> u.updated, cache |-> u.cache]

FilterRetry(c, att, body) ==
    IF att # 0 THEN [retry |-> FALSE, cache |-> c]
    ELSE LET u == updateAggregationOverridesFromError(c, body)
         IN  [retry |-> u.updated, cache |-> u.cache]

\* lines 149-178: [success, data]
FilterDataNoDateCheck(filter, aggs) ==
    [success |-> TRUE,
     data |-> [type |-> filter.type, keys |-> filter.keys, payload |-> aggs]]

FilterData(filter, aggs) ==
    IF filter.keys = DateRange \/ filter.keys = PublicationDate
    THEN LET startDate == safeAggValue(aggs, StartDate)
             endDate   == safeAggValue(aggs, EndDate)
         IN  IF ~startDate.ok \/ ~endDate.ok
             THEN [success |-> FALSE, data |-> <<>>]
             ELSE [success |-> TRUE,
                   data |-> [type |-> filter.type, keys |-> filter.keys,
                             payload |-> (StartDate :> Leaf(startDate.value))
                                         @@ (EndDate :> Leaf(endDate.value))]]
    ELSE [success |-> TRUE,
          data |-> [type |-> filter.type, keys |-> filter.keys, payload |-> aggs]]

\* lines 88-181: one iteration; [retry, cache, success, data, resp, body, inspected]
FilterIteration(c, att, filter, o) ==
    LET stop == [retry |-> FALSE, cache |-> c, success |-> FALSE, data |-> <<>>,
                 resp |-> ZeroResponse, body |-> EmptyBody, inspected |-> FALSE]
    IN  IF o.transport = "error" \/ o.transport = "nil" THEN stop
        ELSE IF o.status >= 400
        THEN LET v == FilterRetry(c, att, o.body)
             IN  [stop EXCEPT !.retry = v.retry, !.cache = v.cache,
                              !.body = o.body, !.inspected = (att = 0)]
        ELSE IF o.transport = "readError" THEN [stop EXCEPT !.body = o.body]
        ELSE LET elasticResp == UnmarshalSearchResponse(o.body)
             IN  IF DOMAIN elasticResp.aggs = {}
                 THEN LET v == FilterRetry(c, att, o.body)
                      IN  [stop EXCEPT !.retry = v.retry, !.cache = v.cache,
                                       !.resp = elasticResp, !.body = o.body,
                                       !.inspected = (att = 0)]
                 ELSE LET d == FilterData(filter, elasticResp.aggs)
                      IN  [stop EXCEPT !.success = d.success, !.data = d.data,
                                       !.resp = elasticResp, !.body = o.body]

FilterAttempt(o) ==
    /\ pc = "filter"
    /\ attempt < SearchAttemptLimit
    /\ LET filter == pairs[pairIdx]
           it     == FilterIteration(cache, attempt, filter, o)
       IN  /\ docs' = Append(docs, filtersRequest(cache, filter))
           /\ calls' = calls + 1
           /\ lastResp' = it.resp
           /\ lastBody' = it.body
           /\ cache' = it.cache
           /\ seen' = Append(seen, Seen(o, it.resp, it.body, cache, it.cache,
                                        it.inspected))
           /\ attempt' = IF it.retry THEN attempt + 1 ELSE attempt
           /\ pc' = IF it.retry /\ attempt + 1 < SearchAttemptLimit
                    THEN "filter" ELSE "pairDone"
           \* lines 184-186
           /\ allFilters' = IF it.success THEN Append(allFilters, it.data)
                            ELSE allFilters
    /\ UNCHANGED <<query, pairs, pairIdx, concVars, pureVars, sinkVars, fanVars>>

\* line 57: the next pair, or the end of the list
NextPair ==
    /\ pc = "pairDone"
    /\ IF pairIdx < Len(pairs)
       THEN /\ pc' = "filter"
            /\ pairIdx' = pairIdx + 1
            /\ attempt' = 0
            /\ calls' = 0
            /\ docs' = <<>>
            /\ seen' = <<>>
            /\ UNCHANGED <<lastResp, lastBody>>
       ELSE /\ pc' = "filtersDone"
            /\ UNCHANGED <<pairIdx, attempt, calls, docs, seen, lastResp, lastBody>>
    /\ UNCHANGED <<cache, query, pairs, allFilters, concVars, pureVars, sinkVars, fanVars>>

\* line 189
FiltersReturn ==
    /\ pc = "filtersDone"
    /\ ResetRequest
    /\ UNCHANGED <<cache, concVars, pureVars, sinkVars, fanVars>>

(***************************************************************************)
(* Requests served one after another by one process.                       *)
(***************************************************************************)
NoCall   == [fn |-> "none"]
\* an environment variable: not set, or set to a text
Unset    == [set |-> FALSE, value |-> <<>>]
EnvValue(v) == [set |-> TRUE, value |-> v]
\* the zero value of Query; members are the members filters, aggs and ids
\* that the request body carried, which makes the field non-nil
NoQuery  == [queryString |-> "", filters |-> <<>>, aggs |-> <<>>, ids |-> <<>>,
             members |-> {}]
\* no entity search is running
IdleSearch == [pc |-> "idle", entity |-> "dataset", query |-> NoQuery, attempt |-> 0,
               raw |-> ZeroResponse, resp |-> ZeroResponse, out |-> ZeroResponse]
IdleSink == [sinkEnv |-> Unset, xs |-> IdleSearch, forwards |-> <<>>]
IdleConc == [procs |-> <<>>, rw |-> [writer |-> 0, readers |-> {}]]
NoResponse == [status |-> 0, body |-> <<>>]
IdleFan  == [branch |-> <<>>, results |-> <<>>, joined |-> 0,
             fanResponse |-> NoResponse, fanQuery |-> NoQuery]

Init ==
    /\ cache = EmptyCache
    /\ Idle
    /\ procs = IdleConc.procs
    /\ rw = IdleConc.rw
    /\ branch = IdleFan.branch
    /\ results = IdleFan.results
    /\ joined = IdleFan.joined
    /\ fanResponse = IdleFan.fanResponse
    /\ fanQuery = IdleFan.fanQuery
    /\ call = NoCall
    /\ ret = NoCall
    /\ sinkEnv = IdleSink.sinkEnv
    /\ xs = IdleSink.xs
    /\ forwards = IdleSink.forwards

Next ==
    \/ \E k \in AggKeys : StartSearch(k)
    \/ \E o \in Outcomes : SearchAttempt(o)
    \/ SearchReturn
    \/ \E ps \in FilterRequests : StartListFilters(ps)
    \/ \E o \in Outcomes : FilterAttempt(o)
    \/ NextPair
    \/ FiltersReturn

Spec == Init /\ [][Next]_vars

(***************************************************************************)
(* Concurrent users of the cache: goroutines that each run one recovery of *)
(* a field (lines 153-163, then setAggregationFieldOverride) or one        *)
(* resolveAggregationField, under aggregationFieldOverridesMu.  A step is  *)
(* a lock operation or the code between two of them, except the map        *)
(* assignment of line 41, which takes two steps: between them the entry    *)
(* being written is not a value a reader may use.                          *)
(***************************************************************************)
NumProcs == 2

Procs == 1..NumProcs

Torn == <<"torn">>

Tasks == {[kind |-> k, field |-> f] : k \in {"recover", "resolve"}, f \in {FieldA, FieldB}}

NewProc(task) ==
    [task |-> task, pc |-> "start", exists |-> FALSE, value |-> <<>>, found |-> FALSE]

\* RLock succeeds
CanRLockAlways(l) == TRUE

CanRLock(l) == l.writer = 0

\* Lock succeeds
CanLock(l) == l.writer = 0 /\ l.readers = {}

\* lines 23 and 153
ConcRLock(p) ==
    /\ procs[p].pc = "start"
    /\ CanRLock(rw)
    /\ rw' = [rw EXCEPT !.readers = @ \cup {p}]
    /\ procs' = [procs EXCEPT ![p].pc = "rlocked"]
    /\ UNCHANGED <<cache, pc, query, attempt, calls, lastResp, lastBody, docs,
                   seen, pairs, pairIdx, allFilters, fanVars,
                   pureVars, sinkVars>>

\* lines 154-161: the existence check, the read lock released
ConcCheck(p) ==
    /\ procs[p].pc = "rlocked"
    /\ procs[p].task.kind = "recover"
    /\ LET exists == procs[p].task.field \in DOMAIN cache
       IN  procs' = [procs EXCEPT ![p].exists = exists,
                                  ![p].pc = IF exists THEN "done" ELSE "toSet"]
    /\ rw' = [rw EXCEPT !.readers = @ \ {p}]
    /\ UNCHANGED <<cache, pc, query, attempt, calls, lastResp, lastBody, docs,
                   seen, pairs, pairIdx, allFilters, fanVars,
                   pureVars, sinkVars>>

\* lines 24-30: the lookup, the read lock released
ConcResolve(p) ==
    /\ procs[p].pc = "rlocked"
    /\ procs[p].task.kind = "resolve"
    /\ procs' = [procs EXCEPT
                   ![p].value = resolveAggregationField(cache, procs[p].task.field),
                   ![p].pc = "done"]
    /\ rw' = [rw EXCEPT !.readers = @ \ {p}]
    /\ UNCHANGED <<cache, pc, query, attempt, calls, lastResp, lastBody, docs,
                   seen, pairs, pairIdx, allFilters, fanVars,
                   pureVars, sinkVars>>

\* line 34
ConcLock(p) ==
    /\ procs[p].pc = "toSet"
    /\ CanLock(rw)
    /\ rw' = [rw EXCEPT !.writer = p]
    /\ procs' = [procs EXCEPT ![p].pc = "locked"]
    /\ UNCHANGED <<cache, pc, query, attempt, calls, lastResp, lastBody, docs,
                   seen, pairs, pairIdx, allFilters, fanVars,
                   pureVars, sinkVars>>

\* lines 37-41: return with the map as it is, or start the map assignment
ConcSet(p) ==
    /\ procs[p].pc = "locked"
    /\ LET key    == procs[p].task.field
           target == setAggregationFieldOverride(cache, key, SprintfKeyword(key))
       IN  IF target = cache
           THEN /\ procs' = [procs EXCEPT ![p].pc = "done", ![p].found = TRUE]
                /\ rw' = [rw EXCEPT !.writer = 0]
                /\ UNCHANGED cache
           ELSE /\ procs' = [procs EXCEPT ![p].pc = "writing"]
                /\ cache' = [k \in DOMAIN cache \cup {key} |->
                                IF k = key THEN Torn ELSE cache[k]]
                /\ UNCHANGED rw
    /\ UNCHANGED <<pc, query, attempt, calls, lastResp, lastBody, docs,
                   seen, pairs, pairIdx, allFilters, fanVars,
                   pureVars, sinkVars>>

\* line 41 completed, line 35's deferred Unlock
ConcStore(p) ==
    /\ procs[p].pc = "writing"
    /\ LET key  == procs[p].task.field
           base == [k \in DOMAIN cache \ {key} |-> cache[k]]
       IN  cache' = setAggregationFieldOverride(base, key, SprintfKeyword(key))
    /\ procs' = [procs EXCEPT ![p].pc = "done"]
    /\ rw' = [rw EXCEPT !.writer = 0]
    /\ UNCHANGED <<pc, query, attempt, calls, lastResp, lastBody, docs,
                   seen, pairs, pairIdx, allFilters, fanVars,
                   pureVars, sinkVars>>

InitConc ==
    /\ cache = EmptyCache
    /\ Idle
    /\ procs \in [Procs -> {NewProc(t) : t \in Tasks}]
    /\ rw = IdleConc.rw
    /\ branch = IdleFan.branch
    /\ results = IdleFan.results
    /\ joined = IdleFan.joined
    /\ fanResponse = IdleFan.fanResponse
    /\ fanQuery = IdleFan.fanQuery
    /\ call = NoCall
    /\ ret = NoCall
    /\ sinkEnv = IdleSink.sinkEnv
    /\ xs = IdleSink.xs
    /\ forwards = IdleSink.forwards

NextConc ==
    \E p \in Procs :
        \/ ConcRLock(p)
        \/ ConcCheck(p)
        \/ ConcResolve(p)
        \/ ConcLock(p)
        \/ ConcSet(p)
        \/ ConcStore(p)

SpecConc == InitConc /\ [][NextConc]_vars

(***************************************************************************)
(* Results of a search as the caller gets them.                            *)
(***************************************************************************)
\* lines 1729-1731: every hit's explanation becomes an empty map
stripExplanationKeep(hits) == hits

stripExplanation(hits) ==
    [hits EXCEPT !.list = [i \in DOMAIN hits.list |->
                              [hits.list[i] EXCEPT !.explanation = "{}"]]]

\* newAggs[k] = v
PutAgg(newAggs, k, v) ==
    [x \in DOMAIN newAggs \cup {k} |-> IF x = k THEN v ELSE newAggs[x]]

\* the loop of flattenAggs over the keys in the order the map range visits them
RECURSIVE flattenLoop(_, _, _)
flattenLoop(aggs, order, newAggs) ==
    IF order = <<>> THEN newAggs
    ELSE LET k   == Head(order)
             agg == aggs[k]
         IN  IF ~agg.isMap THEN flattenLoop(aggs, Tail(order), newAggs)
             ELSE IF k = DateRange \/ k = PublicationDate
             THEN LET s1 == IF StartDate \in DOMAIN agg.m
                            THEN PutAgg(newAggs, StartDate, agg.m[StartDate])
                            ELSE newAggs
                      s2 == IF EndDate \in DOMAIN agg.m
                            THEN PutAgg(s1, EndDate, agg.m[EndDate])
                            ELSE s1
                  IN  flattenLoop(aggs, Tail(order), s2)
             ELSE IF k \in DOMAIN agg.m
             THEN flattenLoop(aggs, Tail(order), PutAgg(newAggs, k, agg.m[k]))
             ELSE flattenLoop(aggs, Tail(order), PutAgg(newAggs, k, agg))

\* the orders in which a range over the map may visit its keys
KeyOrders(aggs) ==
    LET n == Cardinality(DOMAIN aggs)
    IN  {o \in [1..n -> DOMAIN aggs] : \A i, j \in 1..n : o[i] = o[j] => i = j}

\* the loop without its last statement (line 1708): objects that are
\* neither a range nor an envelope are not written
flattenAggsNoPassThrough(aggs, order) ==
    LET r == flattenLoop(aggs, order, <<>>)
        kept == {k \in DOMAIN r : ~(k \in DOMAIN aggs /\ r[k] = aggs[k])}
    IN  [k \in kept |-> r[k]]

\* the loop without lines 1703-1706: an envelope is written as it came
flattenAggsKeepsEnvelope(aggs, order) ==
    LET r == flattenLoop(aggs, order, <<>>)
    IN  [k \in DOMAIN r |->
            IF k \in DOMAIN aggs /\ aggs[k].isMap /\ k \in DOMAIN aggs[k].m
               /\ k # DateRange /\ k # PublicationDate
            THEN aggs[k] ELSE r[k]]

flattenAggs(aggs, order) == flattenLoop(aggs, order, <<>>)

\* lines 293-298 of datasetSearch, and the same lines of the other six
datasetSearch(resp, order) ==
    [hits |-> stripExplanation(resp.hits), aggs |-> flattenAggs(resp.aggs, order)]

(***************************************************************************)
(* Translation of a Query into a query document.  A filter value is what   *)
(* the JSON decoder left in the map: a list, a string or number, or an     *)
(* object.  A clause is kept with the words its JSON text consists of,     *)
(* member names and values, since buildAggregations searches that text.    *)
(***************************************************************************)
ListV(elems) == [shape |-> "list", elems |-> elems, includeUnreported |-> "absent"]
ScalarV(v)   == [shape |-> "scalar", elems |-> <<v>>, includeUnreported |-> "absent"]
\* an object with from and to; includeUnreported is "true", "false",
\* "absent" or "notBool"
RangeV(inc)  == [shape |-> "map", elems |-> <<>>, includeUnreported |-> inc]

\* the argument of buildAggregations and the first index of Query.Filters
\* that each entity's translation uses
AggEntityType(e) ==
    IF e = "dataUseRegister" THEN "datauseregister"
    ELSE IF e = "dataProvider" THEN "dataprovider"
    ELSE e

FilterBucket(e) == IF e = "publication" THEN "paper" ELSE e

\* strings.ToLower on the type names in use
ToLower(t) ==
    IF t = "Dataset" THEN "dataset"
    ELSE IF t = "dataUseRegister" THEN "datauseregister"
    ELSE IF t = "dataProvider" THEN "dataprovider"
    ELSE t

\* the terms of a list as {"term": {key: t}} parts
TermParts(key, elems) ==
    {[op |-> "term", field |-> key, value |-> elems[i]] : i \in DOMAIN elems}

\* the loop body of the entity's loop over its filters: [panic, clause].  A
\* type assertion on a value of another type, and an index past the end of
\* a list, panic.
FilterClause(bucket, key, terms) ==
    IF bucket = "dataset" /\ key = DateRange
    THEN IF terms.shape # "list" \/ Len(terms.elems) < 2
         THEN [panic |-> TRUE, clause |-> <<>>]
         ELSE [panic |-> FALSE,
               clause |-> [bool |-> "must", key |-> key, parts |->
                   {[op |-> "range", field |-> StartDate, value |-> terms.elems[2]],
                    [op |-> "range", field |-> EndDate, value |-> terms.elems[1]]}]]
    ELSE IF bucket = "dataset" /\ key = PopulationSize
    THEN IF terms.shape # "map" \/ terms.includeUnreported \notin {"true", "false"}
         THEN [panic |-> TRUE, clause |-> <<>>]
         ELSE [panic |-> FALSE,
               clause |-> IF terms.includeUnreported = "true"
                   THEN [bool |-> "should", key |-> key, parts |->
                            {[op |-> "range", field |-> key, value |-> <<"from-to">>],
                             [op |-> "term", field |-> PopulationSize, value |-> <<"-1">>]}]
                   ELSE [bool |-> "must", key |-> key, parts |->
                            {[op |-> "range", field |-> key, value |-> <<"from-to">>]}]]
    ELSE IF bucket = "paper" /\ key = PublicationDate
    THEN IF terms.shape # "list" \/ Len(terms.elems) < 2
         THEN [panic |-> TRUE, clause |-> <<>>]
         ELSE [panic |-> FALSE,
               clause |-> [bool |-> "must", key |-> key, parts |->
                   {[op |-> "range", field |-> PublicationDate, value |-> terms.elems[1]],
                    [op |-> "range", field |-> PublicationDate, value |-> terms.elems[2]]}]]
    ELSE IF terms.shape # "list"
         THEN [panic |-> TRUE, clause |-> <<>>]
         ELSE [panic |-> FALSE,
               clause |-> [bool |-> "should", key |-> key,
                           parts |-> TermParts(key, terms.elems)]]

\* the loop over query.Filters[bucket]: [panic, clauses].  The slice is
\* kept as the set of its clauses: the map is visited in no fixed order.
MustFilters(bucket, filters) ==
    IF bucket \notin DOMAIN filters THEN [panic |-> FALSE, clauses |-> {}]
    ELSE LET fs == filters[bucket]
             cs == {FilterClause(bucket, k, fs[k]) : k \in DOMAIN fs}
         IN  [panic   |-> \E c \in cs : c.panic,
              clauses |-> {c.clause : c \in {x \in cs : ~x.panic}}]

\* json.Marshal(fil) as the words of its text
JsonWords(clause) ==
    {<<"bool">>, <<clause.bool>>}
    \cup UNION {{<<p.op>>, p.field, p.value} : p \in clause.parts}

\* strings.Contains on one word
ContainsSeq(w, k) ==
    \E i \in 0..Len(w) : i + Len(k) <= Len(w) /\ SubSeq(w, i + 1, i + Len(k)) = k

\* strings.Contains(filStr, k)
JsonContains(clause, k) == \E w \in JsonWords(clause) : ContainsSeq(w, k)

\* lines 1654-1665: the filters that scope the aggregation of k
ScopeFilters(mustFilters, k) == {fil \in mustFilters : ~JsonContains(fil, k)}

\* lines 1619-1627: the aggregation entry is for this entity type
AggApplies(agg, entityType) ==
    ~(agg.type \notin {"", " "} /\ ToLower(agg.type) # ToLower(entityType))

\* the result maps each key to its clause and the filters that scope it
buildAggregations(c, aggs, mustFilters, entityType) ==
    LET mine == {i \in DOMAIN aggs : AggApplies(aggs[i], entityType)}
    IN  [k \in {aggs[i].keys : i \in mine} |->
            [clause |-> AggClause(c, k), filter |-> ScopeFilters(mustFilters, k)]]

\* the filter loop of entity e panics on this query
ConfigPanics(q, e) == MustFilters(FilterBucket(e), q.filters).panic

\* dataCustodianNetworkElasticConfig reads neither query.IDs nor a sort
HandlesIds(e) == e # "datacustodiannetwork"

\* the three shapes of mainQuery: match_all with a random score, the terms
\* filter on _id, and the three multi_match clauses on the entity's fields
MatchAllQuery == [kind |-> "match_all", ids |-> <<>>, text |-> "", fieldsOf |-> ""]
IdsQuery(ids) == [kind |-> "idsFilter", ids |-> ids, text |-> "", fieldsOf |-> ""]
MultiMatchQuery(e, text) ==
    [kind |-> "multi_match", ids |-> <<>>, text |-> text, fieldsOf |-> e]

\* lines 306-396 and their siblings
MainQuery(q, e) ==
    IF q.queryString = ""
    THEN IF ~HandlesIds(e) \/ Len(q.ids) = 0 THEN MatchAllQuery
         ELSE IdsQuery(q.ids)
    ELSE MultiMatchQuery(e, q.queryString)

\* var sortQuery []gin.H: nil until lines 338-352 assign the script sort
NilSort == [isNil |-> TRUE, clauses |-> <<>>]
IdSort(ids) ==
    [isNil |-> FALSE,
     clauses |-> <<[type |-> "number", lang |-> "painless",
                    source |-> "params.order.indexOf(doc['_id'].value)",
                    params |-> ids, order |-> "asc"]>>]

SortQuery(q, e) ==
    IF HandlesIds(e) /\ q.queryString = "" /\ Len(q.ids) # 0
    THEN IdSort(q.ids) ELSE NilSort

\* lines 477-479: response["sort"] = sortQuery
SortMember(q, e) ==
    [present |-> HandlesIds(e) /\ Len(q.ids) > 0, value |-> SortQuery(q, e)]

\* datasetElasticConfig and its six siblings:
\* [panic, query, sort, post_filter, aggs]
elasticConfig(c, q, e) ==
    LET mf == MustFilters(FilterBucket(e), q.filters)
    IN  IF mf.panic
        THEN [panic |-> TRUE, query |-> MatchAllQuery,
              sort |-> [present |-> FALSE, value |-> NilSort],
              post_filter |-> {}, aggs |-> <<>>]
        ELSE [panic |-> FALSE, query |-> MainQuery(q, e), sort |-> SortMember(q, e),
              post_filter |-> mf.clauses,
              aggs |-> buildAggregations(c, q.aggs, mf.clauses, AggEntityType(e))]

(***************************************************************************)
(* SearchGeneric: seven branch goroutines, each running its entity's       *)
(* search and sending the result on its own unbuffered channel, and the    *)
(* handler's loop receiving seven times.  A branch takes one step per      *)
(* iteration of executeSearchWithRetry; a send and its receive are one     *)
(* step.                                                                   *)
(***************************************************************************)
MaxFailures == 1

\* the keys of the results map, in the order the branches are started
EntityTypes == <<"dataset", "tool", "collection", "dataUseRegister",
                 "publication", "dataProvider", "datacustodiannetwork">>

EntityKeys == {EntityTypes[i] : i \in DOMAIN EntityTypes}

FanCountSix == 7 - 1

\* the bound of the receive loop
FanCount == 7

\* aggregations as the search indices return them
SearchTermsAggs == FieldA :> MapV(FieldA :> MapV(<<"buckets">> :> Leaf("x")))
SearchDateAggs  == DateRange :> MapV((StartDate :> MapV(<<"value">> :> Leaf("2001")))
                                     @@ (EndDate :> MapV(<<"value">> :> Leaf("2020"))))

\* what each index answers when its call succeeds
FanSuccess(e) ==
    IF e \in {"dataset", "collection", "datacustodiannetwork"}
    THEN Outcome("ok", 200, JsonBody(Hits(<<Hit1>>), SearchTermsAggs, "absent", <<>>))
    ELSE IF e \in {"publication", "dataUseRegister"}
    THEN Outcome("ok", 200, JsonBody(Hits(<<Hit1>>), SearchDateAggs, "absent", <<>>))
    ELSE Outcome("ok", 200, JsonBody(Hits(<<>>), NoAggs, "absent", <<>>))

\* failed backend calls: no connection, an error the recovery acts on, and
\* an error in the backend's full format
FanFailures ==
    { Outcome("error", 0, EmptyBody),
      Outcome("ok", 400, JsonBody(NilHits, NoAggs, "rootCauseOnly",
                                  <<<<FDD, SP, LB, "a", RB>>>>)),
      Outcome("ok", 400, JsonBody(NilHits, NoAggs, "withOthers",
                                  <<<<FDD, SP, LB, "a", RB>>>>)) }

\* the indices whose calls fail in the runs considered: the first and the
\* last branch started, and the one whose document has a terms aggregation
FailingIndices == {"dataset", "tool", "datacustodiannetwork"}

NewBranch ==
    [pc |-> "search", attempt |-> 0, faulty |-> FALSE, failed |-> FALSE,
     docs |-> <<>>, value |-> ZeroResponse]

\* the queries of the fan-out requests: one terms aggregation for the tools,
\* no filters, or a filter of the collections whose value is no list
FanQueries ==
    LET aggs == <<[type |-> "tool", keys |-> FieldA]>>
    IN  { [NoQuery EXCEPT !.aggs = aggs, !.members = {"aggs"}],
          [NoQuery EXCEPT !.aggs = aggs,
                          !.filters = ("collection" :> (FieldB :> ScalarV(<<"v">>))),
                          !.members = {"aggs", "filters"}] }

\* a branch goroutine has panicked: the process is gone
Crashed == \E e \in DOMAIN branch : branch[e].pc = "panic"

\* lines 204-208: the request body does not bind
FanBadRequest ==
    /\ branch = <<>>
    /\ fanResponse = NoResponse
    /\ fanResponse' = [status |-> 400, body |-> <<>>]
    /\ UNCHANGED <<cache, pc, query, attempt, calls, lastResp, lastBody, docs,
                   seen, pairs, pairIdx, allFilters, concVars, pureVars, sinkVars,
                   branch, results, joined, fanQuery>>

\* lines 204-225
StartFan(q) ==
    /\ branch = <<>>
    /\ fanResponse = NoResponse
    /\ fanQuery' = q
    /\ branch' = [e \in EntityKeys |-> NewBranch]
    /\ results' = <<>>
    /\ joined' = 0
    /\ UNCHANGED <<cache, pc, query, attempt, calls, lastResp, lastBody, docs,
                   seen, pairs, pairIdx, allFilters, concVars, pureVars, sinkVars, fanResponse>>

\* branch e: the closure of executeSearchWithRetry builds the document and a
\* type assertion in the entity's translation panics; nothing recovers it
FanPanic(e) ==
    /\ branch # <<>>
    /\ ~Crashed
    /\ branch[e].pc = "search"
    /\ ConfigPanics(fanQuery, e)
    /\ branch' = [branch EXCEPT ![e].pc = "panic"]
    /\ UNCHANGED <<cache, pc, query, attempt, calls, lastResp, lastBody, docs,
                   seen, pairs, pairIdx, allFilters, concVars, pureVars, sinkVars,
                   results, joined, fanResponse, fanQuery>>

\* branch e: one iteration of executeSearchWithRetry and, when the loop
\* ends, the rest of the entity's search (lines 269-298)
FanAttempt(e, o, order) ==
    /\ branch # <<>>
    /\ ~Crashed
    /\ branch[e].pc = "search"
    /\ branch[e].attempt < SearchAttemptLimit
    /\ ~ConfigPanics(fanQuery, e)
    /\ o \in FanFailures =>
           /\ e \in FailingIndices
           /\ Cardinality({x \in EntityKeys : branch[x].faulty} \cup {e}) <= MaxFailures
    /\ LET r == executeElasticQuery(o)
           v == SearchVerdict(cache, r)
       IN  /\ cache' = v.cache
           /\ order \in KeyOrders(r.resp.aggs)
           /\ branch' = [branch EXCEPT
                  ![e].faulty = @ \/ o \in FanFailures,
                  ![e].attempt = IF v.retry THEN @ + 1 ELSE @,
                  ![e].failed = o \in FanFailures,
                  ![e].docs = Append(@, elasticConfig(cache, fanQuery, e)),
                  ![e].value = datasetSearch(r.resp, order),
                  ![e].pc = IF v.retry /\ branch[e].attempt + 1 < SearchAttemptLimit
                            THEN "search" ELSE "send"]
    /\ UNCHANGED <<pc, query, attempt, calls, lastResp, lastBody, docs,
                   seen, pairs, pairIdx, allFilters, concVars, pureVars, sinkVars,
                   results, joined, fanResponse, fanQuery>>

\* line 227: the loop condition
LoopRunsUntilFirst(i) == i < 1

LoopRunsOnceMore(i) == i < FanCount + 1

LoopRuns(i) == i < FanCount

\* lines 228-243: the assignment of the case that received from branch e
StoreResultShared(res, e, v) == PutAgg(res, "dataset", v)

StoreResult(res, e, v) == PutAgg(res, e, v)

\* lines 227-244: one iteration of the receive loop, with branch e's send
FanReceive(e) ==
    /\ branch # <<>>
    /\ ~Crashed
    /\ LoopRuns(joined)
    /\ branch[e].pc = "send"
    /\ results' = StoreResult(results, e, branch[e].value)
    /\ joined' = joined + 1
    /\ branch' = [branch EXCEPT ![e].pc = "done"]
    /\ UNCHANGED <<cache, pc, query, attempt, calls, lastResp, lastBody, docs,
                   seen, pairs, pairIdx, allFilters, concVars, pureVars, sinkVars, fanResponse,
                   fanQuery>>

\* line 246
FanReturn ==
    /\ branch # <<>>
    /\ ~Crashed
    /\ ~LoopRuns(joined)
    /\ fanResponse = NoResponse
    /\ fanResponse' = [status |-> 200, body |-> results]
    /\ UNCHANGED <<cache, pc, query, attempt, calls, lastResp, lastBody, docs,
                   seen, pairs, pairIdx, allFilters, concVars, pureVars, sinkVars,
                   branch, results, joined, fanQuery>>

NextFan ==
    \/ FanBadRequest
    \/ \E q \in FanQueries : StartFan(q)
    \/ \E e \in EntityKeys : FanPanic(e)
    \/ \E e \in EntityKeys : \E o \in {FanSuccess(e)} \cup FanFailures :
           \E order \in KeyOrders(executeElasticQuery(o).resp.aggs) :
               FanAttempt(e, o, order)
    \/ \E e \in EntityKeys : FanReceive(e)
    \/ FanReturn

SpecFan == Init /\ [][NextFan]_vars

\* the fan-out with the backend failing for the datasets only
NextFanDataset ==
    \/ FanBadRequest
    \/ \E q \in FanQueries : StartFan(q)
    \/ \E e \in EntityKeys : FanPanic(e)
    \/ \E e \in EntityKeys :
           \E o \in {FanSuccess(e)} \cup (IF e = "dataset" THEN FanFailures ELSE {}) :
               \E order \in KeyOrders(executeElasticQuery(o).resp.aggs) :
                   FanAttempt(e, o, order)
    \/ \E e \in EntityKeys : FanReceive(e)
    \/ FanReturn

\* the goroutines are scheduled: while the handler or a branch can take a
\* step, a step is taken
SpecFanFair == Init /\ [][NextFanDataset]_vars /\ WF_vars(NextFanDataset)

(***************************************************************************)
(* The translation of one query for one entity type, called on its own.    *)
(***************************************************************************)
MaxFilters == 2

FilterKeys == {FieldA, FieldB, DateRange, PopulationSize, PublicationDate}

\* filter values as the request may carry them: lists of two and of one
\* element, a string, and objects with and without includeUnreported
FilterValues ==
    { ListV(<<<<"v">>, <<"w">>>>), ListV(<<<<"v">>>>), ScalarV(<<"v">>),
      RangeV("true"), RangeV("absent") }

\* the filters of one bucket
FilterMaps ==
    UNION {[S -> FilterValues] :
              S \in {T \in SUBSET FilterKeys : Cardinality(T) <= MaxFilters}}

\* Query.Aggregations
AggLists ==
    {<<>>}
    \cup {<<[type |-> "", keys |-> k]>> :
             k \in {FieldA, DateRange, PopulationSize, PublicationDate}}
    \cup { <<[type |-> "Dataset", keys |-> FieldA]>>,
           <<[type |-> " ", keys |-> FieldB], [type |-> "", keys |-> DateRange]>> }

TranslateCalls ==
    {[fn |-> "elasticConfig", e |-> e,
      q |-> [NoQuery EXCEPT
                !.filters = IF f = <<>> THEN <<>> ELSE (FilterBucket(e) :> f),
                !.aggs = a,
                !.members = {"filters", "aggs"}]] :
        e \in EntityKeys, f \in FilterMaps, a \in AggLists}

\* the cache as earlier requests may have left it
WarmCaches == {EmptyCache, FieldA :> SprintfKeyword(FieldA)}

InitTranslate ==
    /\ cache \in WarmCaches
    /\ call \in TranslateCalls
    /\ ret = NoCall
    /\ Idle
    /\ procs = IdleConc.procs
    /\ rw = IdleConc.rw
    /\ branch = IdleFan.branch
    /\ results = IdleFan.results
    /\ joined = IdleFan.joined
    /\ fanResponse = IdleFan.fanResponse
    /\ fanQuery = IdleFan.fanQuery
    /\ sinkEnv = IdleSink.sinkEnv
    /\ xs = IdleSink.xs
    /\ forwards = IdleSink.forwards

\* the call returns its document, or panics
Translate ==
    /\ call.fn = "elasticConfig"
    /\ ret = NoCall
    /\ ret' = [fn |-> "elasticConfig", doc |-> elasticConfig(cache, call.q, call.e)]
    /\ UNCHANGED <<cache, pc, query, attempt, calls, lastResp, lastBody, docs,
                   seen, pairs, pairIdx, allFilters, concVars, fanVars,
                   call, sinkVars>>

NextTranslate == Translate

SpecTranslate == InitTranslate /\ [][NextTranslate]_vars

(***************************************************************************)
(* One entity search with the explanation sink: the search function of an  *)
(* entity type from its call to its return, to a handler or to a branch    *)
(* of the fan-out, and the extractExplanation tasks it starts.             *)
(***************************************************************************)
\* the values of SEARCH_EXPLANATION_EXTRACTOR
SinkEnvs == {Unset, EnvValue(<<>>), EnvValue(<<SP>>), EnvValue(<<"u">>),
             EnvValue(<<SP, "u", SP>>)}

\* the entityType argument of stripExplanation in each search function
StripType(e) == IF e = "dataUseRegister" THEN "dur" ELSE e

\* reflect.ValueOf(query).IsZero()
IsZeroQuery(q) == q.queryString = "" /\ q.members = {}

XQueries == { NoQuery,
              [NoQuery EXCEPT !.queryString = "asthma"],
              [NoQuery EXCEPT !.members = {"filters"}] }

XOutcomes ==
    { Outcome("ok", 200, JsonBody(Hits(<<Hit1, Hit2>>), SearchTermsAggs, "absent", <<>>)),
      Outcome("ok", 200, JsonBody(Hits(<<>>), NoAggs, "absent", <<>>)),
      Outcome("error", 0, EmptyBody),
      Outcome("ok", 400, JsonBody(NilHits, NoAggs, "rootCauseOnly",
                                  <<<<FDD, SP, LB, "a", RB>>>>)) }

\* lines 1717-1721
ExpEnabled(env) == env.set /\ TrimSpace(env.value) # <<>>

\* lines 1723: the condition under which the explanations are forwarded
ForwardsExplanation(env, entityType, q) ==
    ExpEnabled(env) /\ entityType = "dataset" /\ ~IsZeroQuery(q)

\* the slice of the caller's response handed on as it is: the copy's hits
\* are the elements the stripping loop writes to
copyResponseHitsAliased(r) ==
    [hits |-> r.hits, aggs |-> NoAggs, backing |-> "caller"]

\* copyResponseHits: a response with the hits of r, each Hit copied whole
\* into a slice of its own, and nothing else; append to a nil slice of no
\* elements leaves nil
copyResponseHits(r) ==
    [hits |-> IF r.hits.list = <<>> THEN NilHits ELSE Hits(r.hits.list),
     aggs |-> NoAggs, backing |-> "own"]

\* the hits a task finds in the response it was given, when it reads them
HitsRead(data, resp) ==
    IF data.backing = "caller" THEN resp.hits ELSE data.hits

\* the loop of lines 1729-1731 on the hits of the response
StripLoop(hits) == stripExplanation(hits)

InitExplain ==
    /\ cache = EmptyCache
    /\ sinkEnv \in SinkEnvs
    /\ xs = IdleSink.xs
    /\ forwards = IdleSink.forwards
    /\ call = NoCall
    /\ ret = NoCall
    /\ Idle
    /\ procs = IdleConc.procs
    /\ rw = IdleConc.rw
    /\ branch = IdleFan.branch
    /\ results = IdleFan.results
    /\ joined = IdleFan.joined
    /\ fanResponse = IdleFan.fanResponse
    /\ fanQuery = IdleFan.fanQuery

\* datasetSearch(query) or one of its six siblings is called
XStart(e, q) ==
    /\ xs.pc = "idle"
    /\ xs' = [IdleSearch EXCEPT !.pc = "search", !.entity = e, !.query = q]
    /\ UNCHANGED <<cache, pc, query, attempt, calls, lastResp, lastBody, docs,
                   seen, pairs, pairIdx, allFilters, concVars, fanVars,
                   pureVars, sinkEnv, forwards>>

\* one iteration of executeSearchWithRetry
XAttempt(o) ==
    /\ xs.pc = "search"
    /\ xs.attempt < SearchAttemptLimit
    /\ LET r == executeElasticQuery(o)
           v == SearchVerdict(cache, r)
       IN  /\ cache' = v.cache
           /\ xs' = [xs EXCEPT
                  !.attempt = IF v.retry THEN @ + 1 ELSE @,
                  !.raw = r.resp,
                  !.resp = r.resp,
                  !.pc = IF v.retry /\ xs.attempt + 1 < SearchAttemptLimit
                         THEN "search" ELSE "strip"]
    /\ UNCHANGED <<pc, query, attempt, calls, lastResp, lastBody, docs,
                   seen, pairs, pairIdx, allFilters, concVars, fanVars,
                   pureVars, sinkEnv, forwards>>

\* stripExplanation lines 1717-1727: the copy is made and the task started
XSpawn ==
    /\ xs.pc = "strip"
    /\ forwards' = IF ForwardsExplanation(sinkEnv, StripType(xs.entity), xs.query)
                   THEN Append(forwards, [data |-> copyResponseHits(xs.resp),
                                          state |-> "started", sent |-> NilHits,
                                          stripped |-> FALSE])
                   ELSE forwards
    /\ xs' = [xs EXCEPT !.pc = "stripLoop"]
    /\ UNCHANGED <<cache, pc, query, attempt, calls, lastResp, lastBody, docs,
                   seen, pairs, pairIdx, allFilters, concVars, fanVars,
                   pureVars, sinkEnv>>

\* stripExplanation lines 1729-1731
XStrip ==
    /\ xs.pc = "stripLoop"
    /\ xs' = [xs EXCEPT !.resp.hits = StripLoop(xs.resp.hits), !.pc = "flatten"]
    /\ UNCHANGED <<cache, pc, query, attempt, calls, lastResp, lastBody, docs,
                   seen, pairs, pairIdx, allFilters, concVars, fanVars,
                   pureVars, sinkEnv, forwards>>

\* lines 294-298: the aggregations flattened, the response returned
XReturn(order) ==
    /\ xs.pc = "flatten"
    /\ order \in KeyOrders(xs.resp.aggs)
    /\ xs' = [xs EXCEPT !.out = [hits |-> xs.resp.hits,
                                 aggs |-> flattenAggs(xs.resp.aggs, order)],
                        !.pc = "returned"]
    /\ UNCHANGED <<cache, pc, query, attempt, calls, lastResp, lastBody, docs,
                   seen, pairs, pairIdx, allFilters, concVars, fanVars,
                   pureVars, sinkEnv, forwards>>

\* extractExplanation lines 1745-1766: the response is marshalled as it is
\* then and the request is posted; ok says whether Client.Do returned a
\* response; stripped says whether the stripping loop had run by then
FwdPost(i, ok) ==
    /\ i \in DOMAIN forwards
    /\ forwards[i].state = "started"
    /\ forwards' = [forwards EXCEPT
                       ![i].state = IF ok THEN "posted" ELSE "failed",
                       ![i].sent = HitsRead(forwards[i].data, xs.resp),
                       ![i].stripped = xs.pc \in {"flatten", "returned"}]
    /\ UNCHANGED <<cache, pc, query, attempt, calls, lastResp, lastBody, docs,
                   seen, pairs, pairIdx, allFilters, concVars, fanVars,
                   pureVars, sinkEnv, xs>>

\* extractExplanation lines 1772-1781: the sink's answer is read and logged
FwdEnd(i) ==
    /\ i \in DOMAIN forwards
    /\ forwards[i].state = "posted"
    /\ forwards' = [forwards EXCEPT ![i].state = "ended"]
    /\ UNCHANGED <<cache, pc, query, attempt, calls, lastResp, lastBody, docs,
                   seen, pairs, pairIdx, allFilters, concVars, fanVars,
                   pureVars, sinkEnv, xs>>

NextExplain ==
    \/ \E e \in EntityKeys : \E q \in XQueries : XStart(e, q)
    \/ \E o \in XOutcomes : XAttempt(o)
    \/ XSpawn
    \/ XStrip
    \/ \E order \in KeyOrders(xs.resp.aggs) : XReturn(order)
    \/ \E i \in DOMAIN forwards : \E ok \in BOOLEAN : FwdPost(i, ok)
    \/ \E i \in DOMAIN forwards : FwdEnd(i)

SpecExplain == InitExplain /\ [][NextExplain]_vars

(***************************************************************************)
(* The translation of queries with and without a query string and ids.     *)
(***************************************************************************)
MaxIds == 2

IdNames == {"a", "b"}

\* Query.IDs
IdLists == UNION {[1..n -> IdNames] : n \in 0..MaxIds}

IdsCalls ==
    {[fn |-> "elasticConfig", e |-> e,
      q |-> [NoQuery EXCEPT
                !.queryString = t, !.ids = ids, !.aggs = a,
                !.members = {"aggs"} \cup (IF ids = <<>> THEN {} ELSE {"ids"})]] :
        e \in EntityKeys, t \in {"", "asthma"}, ids \in IdLists,
        a \in {<<>>, <<[type |-> "", keys |-> FieldA]>>}}

InitIds ==
    /\ cache \in WarmCaches
    /\ call \in IdsCalls
    /\ ret = NoCall
    /\ Idle
    /\ procs = IdleConc.procs
    /\ rw = IdleConc.rw
    /\ branch = IdleFan.branch
    /\ results = IdleFan.results
    /\ joined = IdleFan.joined
    /\ fanResponse = IdleFan.fanResponse
    /\ fanQuery = IdleFan.fanQuery
    /\ sinkEnv = IdleSink.sinkEnv
    /\ xs = IdleSink.xs
    /\ forwards = IdleSink.forwards

SpecIds == InitIds /\ [][NextTranslate]_vars

(***************************************************************************)
(* flattenAggs as a function: a raw aggregation map is drawn, flattened,   *)
(* and the result is flattened once more.                                  *)
(***************************************************************************)
MaxAggKeys == 2

RawKeys == {FieldA, StartDate, DateRange, PublicationDate}

Buckets(s) == MapV(<<"buckets">> :> Leaf(s))

\* the values a raw aggregation may have under key k: a scalar, a plain
\* object, the envelope of a named sub-aggregation, an object with a scalar
\* under its own key, an envelope in an envelope, and the objects of a range
RawValues(k) ==
    { Leaf("x"),
      Buckets("x"),
      MapV(k :> Buckets("x") @@ <<"doc_count">> :> Leaf("5")),
      MapV(k :> Leaf("x")),
      MapV(k :> MapV(k :> Buckets("x"))),
      MapV(StartDate :> Buckets("s") @@ EndDate :> Buckets("e")),
      MapV(StartDate :> Buckets("t")),
      MapV(<<>>) }

RawAggs ==
    UNION { {f \in [ks -> UNION {RawValues(k) : k \in ks}] :
                 \A k \in ks : f[k] \in RawValues(k)} :
            ks \in {x \in SUBSET RawKeys : Cardinality(x) <= MaxAggKeys} }

InitFlatten ==
    /\ cache = EmptyCache
    /\ call \in {[fn |-> "flattenAggs", aggs |-> a] : a \in RawAggs}
    /\ ret = NoCall
    /\ Idle
    /\ procs = IdleConc.procs
    /\ rw = IdleConc.rw
    /\ branch = IdleFan.branch
    /\ results = IdleFan.results
    /\ joined = IdleFan.joined
    /\ fanResponse = IdleFan.fanResponse
    /\ fanQuery = IdleFan.fanQuery
    /\ sinkEnv = IdleSink.sinkEnv
    /\ xs = IdleSink.xs
    /\ forwards = IdleSink.forwards

\* flattenAggs on the raw map, the range visiting its keys in some order
FlattenRaw(order) ==
    /\ call.fn = "flattenAggs"
    /\ ret = NoCall
    /\ order \in KeyOrders(call.aggs)
    /\ ret' = [fn |-> "flattenAggs", order |-> order, again |-> FALSE,
               once |-> flattenAggs(call.aggs, order), twice |-> NoAggs]
    /\ UNCHANGED <<cache, pc, query, attempt, calls, lastResp, lastBody, docs,
                   seen, pairs, pairIdx, allFilters, concVars, fanVars,
                   call, sinkVars>>

\* flattenAggs on its own result
FlattenAgain(order) ==
    /\ ret.fn = "flattenAggs"
    /\ ~ret.again
    /\ order \in KeyOrders(ret.once)
    /\ ret' = [ret EXCEPT !.again = TRUE, !.twice = flattenAggs(ret.once, order)]
    /\ UNCHANGED <<cache, pc, query, attempt, calls, lastResp, lastBody, docs,
                   seen, pairs, pairIdx, allFilters, concVars, fanVars,
                   call, sinkVars>>

NextFlatten ==
    \/ \E order \in KeyOrders(call.aggs) : FlattenRaw(order)
    \/ /\ ret.fn = "flattenAggs"
       /\ \E order \in KeyOrders(ret.once) : FlattenAgain(order)

SpecFlatten == InitFlatten /\ [][NextFlatten]_vars

(***************************************************************************)
(* Vocabulary of the properties.                                           *)
(***************************************************************************)
InSearchPath == pc \in {"search", "searchDone"}
\* the loop has gone on, or is about to go on, to a second iteration
Retried == Len(seen) = 2 \/ (pc \in {"search", "filter"} /\ Len(seen) = 1)

\* the loop is over
LoopDone == pc \in {"searchDone", "pairDone"}

\* the reason holds "[", one or more symbols that are no brackets, and "]"
HasBracketedToken(reason) ==
    \E i, j \in 1..Len(reason) :
        /\ i + 1 < j
        /\ reason[i] = LB
        /\ reason[j] = RB
        /\ \A m \in (i + 1)..(j - 1) : reason[m] \notin {LB, RB}

MatchesSignature(reason) ==
    /\ \E i \in 1..Len(reason) : reason[i] \in {TFO, FDD}
    /\ HasBracketedToken(reason)

\* the reason matches the signature and names field f between brackets: f is
\* the bracketed text without surrounding blanks and without a final ".keyword"
NamesField(reason, f) ==
    /\ \E i \in 1..Len(reason) : reason[i] \in {TFO, FDD}
    /\ \E i, j \in 1..Len(reason) :
        /\ i + 1 < j
        /\ reason[i] = LB
        /\ reason[j] = RB
        /\ \A m \in (i + 1)..(j - 1) : reason[m] \notin {LB, RB, SP, TFO, FDD}
        /\ LET tok == SubSeq(reason, i + 1, j - 1)
           IN  \/ tok = f /\ f[Len(f)] # KW
               \/ tok = f \o <<KW>> /\ (f = <<>> \/ f[Len(f)] # KW)

FieldNames == {<<"a">>, <<"b">>}

\* the fields a body names in its root causes
NamedFields(body) ==
    {f \in FieldNames :
        \E i \in 1..Len(body.rootCauses) : NamesField(body.rootCauses[i], f)}

\* C1: one invocation of the retry protocol (executeSearchWithRetry, or the
\* loop of ListFilters for one pair) issues at most two backend calls,
\* whatever the backend returns.
C1_AtMostTwoCalls == calls <= 2 /\ Len(seen) = calls

\* a second attempt whose body again calls for a retry, and no third call
C1_Witness ==
    /\ pc = "searchDone"
    /\ calls = 2
    /\ seen[2].inspected
    /\ NamedFields(seen[2].body) # {}
    /\ seen[2].body.errMembers = "rootCauseOnly"

\* C2: in the search path a second attempt is made only if attempt one
\* returned nil hits and a non-empty body one of whose root-cause reasons
\* matches the signature; otherwise exactly one attempt is made.
C2_RetryOnlyOnSignature ==
    InSearchPath /\ Len(seen) >= 1 =>
        LET first == seen[1]
            cond  == /\ first.resp.hits.isNil
                     /\ first.body.kind # "empty"
                     /\ \E i \in 1..Len(first.body.rootCauses) :
                            MatchesSignature(first.body.rootCauses[i])
        IN  /\ Retried => cond
            /\ pc = "searchDone" /\ ~cond => calls = 1

C2_Witness ==
    /\ pc = "searchDone"
    /\ calls = 2
    /\ ~seen[2].resp.hits.isNil

\* C3 as stated: if the override for the field named in the error body
\* already existed before attempt one's error was inspected, attempt 2 is
\* skipped and the attempt-1 result is returned as final.
C3_AsStated ==
    /\ InSearchPath
    /\ Len(seen) >= 1
    /\ seen[1].inspected
    /\ NamedFields(seen[1].body) # {}
    /\ NamedFields(seen[1].body) \subseteq DOMAIN seen[1].before
    => /\ ~Retried
       /\ pc = "searchDone" => lastResp = seen[1].resp

\* C3 amended: if the override for every field named in the error body
\* already existed, the inspection leaves the cache as it was but still
\* reports an update: attempt 2 is issued exactly when the error object holds
\* nothing but root-cause lists, and the result returned is attempt 2's.
C3_ExistingOverrideStillRetries ==
    /\ InSearchPath
    /\ Len(seen) >= 1
    /\ seen[1].inspected
    /\ NamedFields(seen[1].body) # {}
    /\ NamedFields(seen[1].body) \subseteq DOMAIN seen[1].before
    => /\ seen[1].after = seen[1].before
       /\ Retried <=> seen[1].body.errMembers = "rootCauseOnly"
       /\ pc = "searchDone" /\ Retried =>
              /\ calls = 2
              /\ lastResp = seen[2].resp
              /\ lastBody = seen[2].body

C3_Witness ==
    /\ pc = "searchDone"
    /\ calls = 2
    /\ NamedFields(seen[1].body) = {<<"a">>}
    /\ <<"a">> \in DOMAIN seen[1].before
    /\ seen[2].resp # seen[1].resp

\* C4 as stated: when attempt one fails with a root-cause reason that matches
\* the signature and names [f], and f is not in the cache, the recovery
\* registers f -> f.keyword and exactly one retry is issued.
C4_AsStated ==
    \A f \in FieldNames :
        /\ InSearchPath
        /\ Len(seen) >= 1
        /\ seen[1].inspected
        /\ f \in NamedFields(seen[1].body)
        /\ f \notin DOMAIN seen[1].before
        => /\ f \in DOMAIN seen[1].after
           /\ seen[1].after[f] = f \o <<KW>>
           /\ Retried
           /\ pc = "searchDone" => calls = 2

\* what does hold: the same, for an error object with no member but root_cause
C4_RootCauseOnly ==
    \A f \in FieldNames :
        /\ InSearchPath
        /\ Len(seen) >= 1
        /\ seen[1].inspected
        /\ seen[1].body.errMembers = "rootCauseOnly"
        /\ f \in NamedFields(seen[1].body)
        /\ f \notin DOMAIN seen[1].before
        => /\ f \in DOMAIN seen[1].after
           /\ seen[1].after[f] = f \o <<KW>>
           /\ Retried
           /\ pc = "searchDone" => calls = 2

\* C5: an error body none of whose root-cause reasons holds both a signature
\* phrase and a bracketed token leaves the cache unchanged and causes no
\* retry, in the search path and in the filter-listing path.
C5_NoSignatureNoRetry ==
    \A i \in 1..Len(seen) :
        (\A n \in 1..Len(seen[i].body.rootCauses) :
             ~MatchesSignature(seen[i].body.rootCauses[n]))
        => /\ seen[i].after = seen[i].before
           /\ i = 1 => ~Retried

C5_Witness ==
    /\ pc = "pairDone"
    /\ seen[1].inspected
    /\ seen[1].body.errMembers = "rootCauseOnly"
    /\ seen[1].body.rootCauses = <<<<"x", SP, LB, "a", RB>>>>
    /\ calls = 1

C7_CacheMonotonic ==
    /\ [][\A k \in DOMAIN cache : k \in DOMAIN cache' /\ cache'[k] = cache[k]]_vars
    /\ [](\A i \in 1..Len(docs) :
              docs[i].kind = "terms" /\ docs[i].key \in DOMAIN seen[i].before
              => /\ docs[i].field = seen[i].before[docs[i].key]
                 /\ docs[i].field # docs[i].key)

C7_Witness ==
    /\ pc = "pairDone"
    /\ pairIdx = 2
    /\ Len(docs) = 1
    /\ docs[1].key = <<"a">>
    /\ docs[1].field = <<"a", KW>>

AllDone == \A p \in Procs : procs[p].pc = "done"

\* C8: registering field -> field.keyword a second time leaves the cache as
\* the first registration left it: the same keys, the same resolution of
\* every key.
C8_RegisterTwiceIsOnce ==
    /\ [][\A p \in Procs :
            /\ procs[p].pc = "locked"
            /\ procs'[p].pc # "locked"
            /\ procs[p].task.field \in DOMAIN cache
            => /\ cache' = cache
               /\ \A k \in FieldNames :
                      resolveAggregationField(cache', k) = resolveAggregationField(cache, k)]_vars
    /\ [](rw.writer = 0 =>
            \A f \in DOMAIN cache :
                LET once  == setAggregationFieldOverride(cache, f, SprintfKeyword(f))
                    twice == setAggregationFieldOverride(once, f, SprintfKeyword(f))
                IN  twice = once /\ once = cache)

\* two goroutines have registered the same field, the second finding it there
C8_Witness ==
    \E p, q \in Procs :
        /\ p # q
        /\ procs[p].task = procs[q].task
        /\ procs[p].pc = "done" /\ ~procs[p].exists /\ ~procs[p].found
        /\ procs[q].pc = "done" /\ ~procs[q].exists /\ procs[q].found

\* C9: under every interleaving, writers racing for one key leave the value
\* key.keyword, the cache when all have finished is the one any serial order
\* gives, and every read returns the bare key or the whole override.
C9_RacingWritersConverge ==
    /\ \A p \in Procs :
           procs[p].pc = "done" /\ procs[p].task.kind = "resolve"
           => procs[p].value \in {procs[p].task.field,
                                  procs[p].task.field \o <<KW>>}
    /\ \A k \in DOMAIN cache :
           \/ cache[k] = k \o <<KW>>
           \/ /\ cache[k] = Torn
              /\ rw.writer # 0
              /\ procs[rw.writer].pc = "writing"
              /\ procs[rw.writer].task.field = k
    /\ \A p \in Procs :
           procs[p].pc = "done" /\ procs[p].task.kind = "recover"
           => /\ procs[p].task.field \in DOMAIN cache
              /\ cache[procs[p].task.field] = procs[p].task.field \o <<KW>>
    /\ AllDone =>
           cache = [f \in {procs[p].task.field :
                              p \in {q \in Procs : procs[q].task.kind = "recover"}}
                       |-> f \o <<KW>>]

\* both writers passed the existence check before either wrote, and all ended
C9_Witness ==
    /\ AllDone
    /\ \E p, q \in Procs :
        /\ p # q
        /\ procs[p].task = procs[q].task
        /\ procs[p].task.kind = "recover"
        /\ ~procs[p].exists /\ ~procs[q].exists

\* the last backend call of branch e failed
BranchFailed(e) == branch[e].failed

\* the value of branch e when its backend call succeeds
HealthyValue(e) ==
    LET resp == UnmarshalSearchResponse(FanSuccess(e).body)
    IN  {datasetSearch(resp, order) : order \in KeyOrders(resp.aggs)}

Delivered == {e \in DOMAIN branch : branch[e].pc = "done"}

\* C11: the response of SearchGeneric is sent only after the loop has
\* received seven results, one from each branch; while a branch has not
\* delivered, no response is sent, however long that lasts.
C11_JoinWaitsForAll ==
    /\ joined = Cardinality(Delivered)
    /\ DOMAIN results = Delivered
    /\ fanResponse.status = 200 =>
           /\ joined = 7
           /\ Delivered = EntityKeys
    /\ (branch # <<>> /\ Delivered # EntityKeys) => fanResponse = NoResponse

\* six branches have delivered, the seventh is still searching, and the
\* handler has sent nothing
C11_Witness ==
    /\ branch # <<>>
    /\ joined = 6
    /\ \E e \in EntityKeys : branch[e].pc = "search"
    /\ fanResponse = NoResponse

\* C12: the results map depends on the branches' results alone, not on the
\* order in which they arrive: each received result sits under its own
\* branch's key, and the response maps every key to that branch's result.
C12_PlacementByKey ==
    /\ \A e \in DOMAIN results :
           /\ e \in EntityKeys
           /\ branch[e].pc = "done"
           /\ results[e] = branch[e].value
    /\ fanResponse.status = 200 =>
           fanResponse.body = [e \in EntityKeys |-> branch[e].value]

\* the branch started last delivered first, the branch started first is
\* still searching
C12_Witness ==
    /\ branch # <<>>
    /\ joined = 1
    /\ "datacustodiannetwork" \in DOMAIN results
    /\ branch["dataset"].pc = "search"
    /\ results["datacustodiannetwork"].hits.list # <<>>

\* branch x had no failure of its own: every call of its backend succeeded
\* and its own filters are well-formed
Unharmed(x) == ~branch[x].faulty /\ ~ConfigPanics(fanQuery, x)

\* the documents of x are the ones it builds when no branch fails: the
\* cache is as the request found it
DocsAsWithoutFailure(x) ==
    \A i \in DOMAIN branch[x].docs :
        branch[x].docs[i] = elasticConfig(EmptyCache, fanQuery, x)

\* C13: whatever happens in one branch (a failed call, a recovery that
\* writes the shared cache, a malformed filter in its bucket), every other
\* branch issues the documents, makes the number of attempts and gets the
\* result returned that it would without it.
C13_AsStated ==
    \A x \in DOMAIN branch :
        Unharmed(x) =>
            /\ ~Crashed
            /\ DocsAsWithoutFailure(x)
            /\ branch[x].attempt = 0 /\ Len(branch[x].docs) <= 1
            /\ branch[x].pc \in {"send", "done"} => branch[x].value \in HealthyValue(x)

\* the part of C13 about the documents alone
C13_DocumentsIsolated ==
    \A x \in DOMAIN branch : Unharmed(x) => DocsAsWithoutFailure(x)

\* the part of C13 that holds: while no branch panics, an unharmed branch
\* makes one attempt and sends what its own backend answered
C13_AttemptsAndResultsIsolated ==
    ~Crashed =>
        \A x \in DOMAIN branch :
            Unharmed(x) =>
                /\ branch[x].attempt = 0 /\ Len(branch[x].docs) <= 1
                /\ branch[x].pc \in {"send", "done"} =>
                       branch[x].value \in HealthyValue(x)

\* the translation has returned or panicked
Translated == ret # NoCall /\ ret.fn = "elasticConfig"

\* the filters of the call's own bucket
OwnFilters ==
    IF FilterBucket(call.e) \in DOMAIN call.q.filters
    THEN call.q.filters[FilterBucket(call.e)] ELSE <<>>

\* the keys of the filters whose value has the shape the key needs
WellFormedKeys ==
    {k \in DOMAIN OwnFilters : ~FilterClause(FilterBucket(call.e), k, OwnFilters[k]).panic}

\* C14: a filter whose value has not the shape its key needs is skipped
\* without a panic, and the document holds the clauses of all other filters.
C14_AsStated ==
    Translated =>
        /\ ~ret.doc.panic
        /\ ret.doc.post_filter =
               {FilterClause(FilterBucket(call.e), k, OwnFilters[k]).clause :
                   k \in WellFormedKeys}

\* what holds: a query all of whose filters are well-formed is translated
\* into one clause per filter
C14_WellFormedTranslated ==
    (Translated /\ WellFormedKeys = DOMAIN OwnFilters) =>
        /\ ~ret.doc.panic
        /\ ret.doc.post_filter =
               {FilterClause(FilterBucket(call.e), k, OwnFilters[k]).clause :
                   k \in DOMAIN OwnFilters}

\* C20: for every aggregation key k of the document, the filters scoping
\* k's aggregation do not hold the clause made from the filter on k.
C20_AsStated ==
    (Translated /\ ~ret.doc.panic) =>
        \A k \in DOMAIN ret.doc.aggs :
            \A fil \in ret.doc.aggs[k].filter : fil.key # k

\* what holds: the same for every key but dateRange among the filters of
\* the datasets, whose clause names startDate and endDate only
C20_ExceptDatasetDateRange ==
    (Translated /\ ~ret.doc.panic) =>
        \A k \in DOMAIN ret.doc.aggs :
            \A fil \in ret.doc.aggs[k].filter :
                fil.key = k => (k = DateRange /\ call.e = "dataset")

\* the step on which the retry loop of the current pair ends
PairEnds == pc = "filter" /\ pc' = "pairDone"

\* the last call for the pair got a non-error status and a body that was
\* read and holds aggregations
AnsweredWithAggs(o) ==
    /\ o.transport = "ok"
    /\ o.status < 400
    /\ DOMAIN UnmarshalSearchResponse(o.body).aggs # {}

\* and, for the two date keys, startDate and endDate each hold a value
UsableAnswer(filter, o) ==
    /\ AnsweredWithAggs(o)
    /\ filter.keys \in {DateRange, PublicationDate} =>
           /\ safeAggValue(UnmarshalSearchResponse(o.body).aggs, StartDate).ok
           /\ safeAggValue(UnmarshalSearchResponse(o.body).aggs, EndDate).ok

\* the list grows by one entry, of the current pair, at its end
EntryAppended ==
    /\ Len(allFilters') = Len(allFilters) + 1
    /\ SubSeq(allFilters', 1, Len(allFilters)) = allFilters
    /\ allFilters'[Len(allFilters')].type = pairs[pairIdx].type
    /\ allFilters'[Len(allFilters')].keys = pairs[pairIdx].keys

\* the pairs are taken one by one in input order, each gets at least one
\* call, and the list is written only when a pair ends
PairsInOrder ==
    /\ [][/\ pc = "pairDone" /\ pc' = "filter" => pairIdx' = pairIdx + 1
          /\ pc = "pairDone" /\ pc' = "filtersDone" => pairIdx = Len(pairs)
          /\ pc = "pairDone" => allFilters' = allFilters
          /\ pc = "filter" /\ ~PairEnds => allFilters' = allFilters]_vars
    /\ [](pc = "pairDone" => calls >= 1 /\ Len(allFilters) <= pairIdx)

\* C15, as stated: a pair gets its entry exactly when its last call was
\* answered with a non-error status and aggregations.
C15_AsStated ==
    [][PairEnds =>
          IF AnsweredWithAggs(seen'[Len(seen')].outcome)
          THEN EntryAppended ELSE allFilters' = allFilters]_vars

\* C15, amended: a pair gets its entry, at the end of the list, exactly when
\* its last call (the first, or the one retry) was answered with a non-error
\* status and aggregations that for a date key hold both dates; every pair
\* of the input is processed, in input order, whatever became of the others.
C15_OneEntryPerUsablePair ==
    /\ [][PairEnds =>
             IF UsableAnswer(pairs[pairIdx], seen'[Len(seen')].outcome)
             THEN EntryAppended ELSE allFilters' = allFilters]_vars
    /\ PairsInOrder

\* the first pair failed, the second, another pair, has its entry
C15_Witness ==
    /\ pc = "filtersDone"
    /\ Len(pairs) = 2
    /\ pairs[1] # pairs[2]
    /\ Len(allFilters) = 1
    /\ allFilters[1].type = pairs[2].type

\* the search function has returned to its caller
Returned == xs.pc = "returned"

\* C16: the result an entity search returns has an empty explanation in
\* every hit, whatever the backend sent and whatever the sink's setting.
C16_ExplanationsStripped ==
    Returned =>
        \A i \in DOMAIN xs.out.hits.list : xs.out.hits.list[i].explanation = "{}"

\* a search returned hits that came with an explanation, the sink being set
C16_Witness ==
    /\ Returned
    /\ ExpEnabled(sinkEnv)
    /\ Len(xs.out.hits.list) = 2
    /\ xs.raw.hits.list[1].explanation = "expl"

\* the sink is set and not blank, the search is the datasets', the query is
\* not the zero value
SinkCondition ==
    /\ sinkEnv.set
    /\ \E i \in DOMAIN sinkEnv.value : sinkEnv.value[i] # SP
    /\ xs.entity = "dataset"
    /\ ~(xs.query.queryString = "" /\ xs.query.members = {})

\* forwarding is started exactly under the condition; the response is what
\* the backend's answer alone gives, and is returned whatever the task does
StartedIffAndDetached ==
    /\ xs.pc \in {"idle", "search", "strip"} => forwards = <<>>
    /\ xs.pc \in {"stripLoop", "flatten", "returned"} =>
           IF SinkCondition THEN Len(forwards) = 1 ELSE forwards = <<>>
    /\ \A i \in DOMAIN forwards :
           \A j \in DOMAIN forwards[i].data.hits.list :
               /\ forwards[i].data.hits.list[j].id = xs.raw.hits.list[j].id
               /\ forwards[i].data.hits.list[j].explanation
                      = xs.raw.hits.list[j].explanation
    /\ Returned =>
           xs.out \in {[hits |-> stripExplanation(xs.raw.hits),
                        aggs |-> flattenAggs(xs.raw.aggs, order)] :
                          order \in KeyOrders(xs.raw.aggs)}

\* what a forwarded hit carries besides its id and its explanation
ExtraMembers(hit) == {m \in DOMAIN hit \ {"id", "explanation"} : hit[m] # ""}

\* C17, as stated: forwarding is started exactly under the condition, the
\* task carries the ids and explanations of the hits and nothing else, and
\* the response does not depend on the task.
C17_AsStated ==
    /\ StartedIffAndDetached
    /\ \A i \in DOMAIN forwards :
           \A j \in DOMAIN forwards[i].data.hits.list :
               ExtraMembers(forwards[i].data.hits.list[j]) = {}

\* the part of C17 that holds
C17_StartedIffAndDetached == StartedIffAndDetached

RangeKeys == {DateRange, PublicationDate}

\* flattenAggs has run on the raw map
Flattened == ret.fn = "flattenAggs"

\* what the three rules write for raw key k: pairs of output key and value
Writes(aggs, k) ==
    LET agg == aggs[k]
    IN  IF ~agg.isMap THEN {}
        ELSE IF k \in RangeKeys
        THEN {<<d, agg.m[d]>> : d \in {StartDate, EndDate} \cap DOMAIN agg.m}
        ELSE IF k \in DOMAIN agg.m THEN {<<k, agg.m[k]>>}
        ELSE {<<k, agg>>}

WrittenKeys(aggs, k) == {p[1] : p \in Writes(aggs, k)}

\* the value of output key d: what the raw key visited last among those
\* that write d wrote to it
LastWritten(aggs, order, d) ==
    LET is   == {i \in DOMAIN order : d \in WrittenKeys(aggs, order[i])}
        last == CHOOSE i \in is : \A j \in is : j <= i
    IN  (CHOOSE p \in Writes(aggs, order[last]) : p[1] = d)[2]

\* C18, as stated: a range key gives startDate and endDate its two members,
\* any other raw key is kept, with the sub-object under its own key when it
\* has one and with its raw value otherwise.
C18_AsStated ==
    Flattened =>
        \A k \in DOMAIN call.aggs :
            LET agg == call.aggs[k]
            IN  IF k \in RangeKeys
                THEN \A d \in {StartDate, EndDate} :
                         (agg.isMap /\ d \in DOMAIN agg.m) =>
                             /\ d \in DOMAIN ret.once
                             /\ ret.once[d] = agg.m[d]
                ELSE /\ k \in DOMAIN ret.once
                     /\ ret.once[k] = IF agg.isMap /\ k \in DOMAIN agg.m
                                         /\ agg.m[k].isMap
                                      THEN agg.m[k] ELSE agg

\* C18, amended: only raw keys whose value is an object are mapped; the
\* member under the object's own key is hoisted whatever its type; the
\* output has exactly the keys the rules write, each with the value written
\* by the raw key visited last.
C18_ObjectsByThreeRules ==
    Flattened =>
        /\ DOMAIN ret.once = UNION {WrittenKeys(call.aggs, k) : k \in DOMAIN call.aggs}
        /\ \A d \in DOMAIN ret.once :
               ret.once[d] = LastWritten(call.aggs, ret.order, d)

\* an envelope and a range were flattened together
C18_Witness ==
    /\ Flattened
    /\ DOMAIN call.aggs = {FieldA, DateRange}
    /\ FieldA \in DOMAIN call.aggs[FieldA].m
    /\ DOMAIN ret.once = {FieldA, StartDate, EndDate}
    /\ ret.once[FieldA] = Buckets("x")

\* flattenAggs has run on its own result
FlattenedTwice == Flattened /\ ret.again

\* every value is an object with no member under its own key, and no key is
\* a range key
FlatMap(aggs) ==
    \A k \in DOMAIN aggs :
        /\ k \notin RangeKeys
        /\ aggs[k].isMap
        /\ k \notin DOMAIN aggs[k].m

\* C19, as stated: flattening the result of flattenAggs gives that result
\* again, for every raw aggregation map.
C19_AsStated == FlattenedTwice => ret.twice = ret.once

\* C19, amended: flattening the result again gives that result when every
\* value of the result is an object with no member under its own key.
C19_IdempotentOnFlat ==
    FlattenedTwice /\ FlatMap(ret.once) => ret.twice = ret.once

\* a raw map that was not flat gave a flat result, which was flattened again
C19_Witness ==
    /\ FlattenedTwice
    /\ FlatMap(ret.once)
    /\ ret.once # NoAggs
    /\ ret.once # call.aggs

\* elasticConfig has returned a document
Built == ret.fn = "elasticConfig" /\ ~ret.doc.panic

\* java.util.List.indexOf: the first position of x, from 0, or -1
IndexOf(list, x) ==
    IF \E i \in DOMAIN list : list[i] = x
    THEN (CHOOSE i \in DOMAIN list : list[i] = x /\ \A j \in 1..(i - 1) : list[j] # x) - 1
    ELSE -1

\* the document's sort is one ascending script clause whose value for a hit
\* is the position of the hit's id in ids
SortsByPositionIn(doc, ids) ==
    /\ doc.sort.present
    /\ ~doc.sort.value.isNil
    /\ Len(doc.sort.value.clauses) = 1
    /\ LET cl == doc.sort.value.clauses[1]
       IN  /\ cl.order = "asc"
           /\ cl.source = "params.order.indexOf(doc['_id'].value)"
           /\ \A x \in IdNames : IndexOf(cl.params, x) = IndexOf(ids, x)

IdsOnly == call.q.queryString = "" /\ call.q.ids # <<>>

\* C21, as stated: with an empty query string and ids, every entity type's
\* document filters on the ids and sorts ascending by position in the ids.
C21_AsStated ==
    Built /\ IdsOnly =>
        /\ ret.doc.query = IdsQuery(call.q.ids)
        /\ SortsByPositionIn(ret.doc, call.q.ids)

\* what holds: the six entity types whose translation reads the ids
C21_SixEntityTypes ==
    Built /\ IdsOnly /\ HandlesIds(call.e) =>
        /\ ret.doc.query = IdsQuery(call.q.ids)
        /\ SortsByPositionIn(ret.doc, call.q.ids)

\* C30, as stated: for the six entity types the document has a sort member
\* exactly when there are ids, and the member is the id-position sort, with
\* a query string too.
C30_AsStated ==
    Built /\ HandlesIds(call.e) =>
        /\ ret.doc.sort.present <=> call.q.ids # <<>>
        /\ ret.doc.sort.present => SortsByPositionIn(ret.doc, call.q.ids)

\* what holds: the member is there exactly when there are ids, and is the
\* id-position sort when the query string is empty
C30_SortMemberIffIds ==
    Built /\ HandlesIds(call.e) =>
        /\ ret.doc.sort.present <=> call.q.ids # <<>>
        /\ ret.doc.sort.present /\ call.q.queryString = ""
               => SortsByPositionIn(ret.doc, call.q.ids)

\* a document with the range aggregation of populationSize was built
RangesBuilt == Built /\ PopulationSize \in DOMAIN ret.doc.aggs

\* C22: the ranges of the populationSize aggregation are ten buckets: the
\* first from -1 to 1 with key Unreported, then from 10^i to 10^(i+1) for
\* i = 0..8, each bucket ending where the next begins.
C22_TenContiguousBuckets ==
    RangesBuilt =>
        LET ranges == ret.doc.aggs[PopulationSize].clause.ranges
        IN  /\ Len(ranges) = 10
            /\ ranges[1] = [from |-> -1, to |-> 1, key |-> "Unreported"]
            /\ \A i \in 0..8 :
                   /\ DOMAIN ranges[i + 2] = {"from", "to"}
                   /\ ranges[i + 2].from = 10 ^ i
                   /\ ranges[i + 2].to = 10 ^ (i + 1)
            /\ \A n \in 1..9 :
                   /\ ranges[n].to = ranges[n + 1].from
                   /\ ranges[n].from < ranges[n + 1].from

\* a document with the populationSize aggregation was returned
C22_Witness ==
    /\ RangesBuilt
    /\ ret.doc.aggs[PopulationSize].clause.kind = "range"
    /\ ret.doc.aggs[PopulationSize].clause.ranges[10].to = 1000000000

\* a second attempt was issued: its document is the second of docs
SecondAttemptIssued == Len(docs) >= 2

\* the key the current retry loop aggregates on
LoopKey == IF InSearchPath THEN query ELSE pairs[pairIdx].keys

\* C23: each attempt's document is built from the same query and the cache
\* as it is then: the second document differs from the first in its field
\* reference only, and when the first attempt's recovery left the key
\* registered, the second document's terms aggregation is on key.keyword.
C23_RebuiltWithResolvedField ==
    SecondAttemptIssued =>
        /\ \A i \in DOMAIN docs : docs[i].key = LoopKey
        /\ docs[2] = [docs[1] EXCEPT !.field = docs[2].field]
        /\ docs[2].kind = "terms" =>
               docs[2].field = IF docs[2].key \in DOMAIN seen[1].after
                               THEN SprintfKeyword(docs[2].key)
                               ELSE docs[2].key

\* the first attempt registered the key and the second document uses the
\* override
C23_Witness ==
    /\ SecondAttemptIssued
    /\ docs[1].kind = "terms"
    /\ docs[1].field = docs[1].key
    /\ docs[1].key \notin DOMAIN seen[1].before
    /\ docs[2].field = SprintfKeyword(docs[1].key)

\* C24: every entry of the cache maps a field to that field followed by
\* ".keyword": never to itself, to the empty string or to another field's
\* override.
C24_EntriesAreKeywordOverrides ==
    \A f \in DOMAIN cache :
        /\ cache[f] = f \o <<KW>>
        /\ cache[f] # f
        /\ cache[f] # <<>>

\* recoveries have registered two fields, one of them named with its
\* .keyword suffix in the error
C24_Witness ==
    /\ {FieldA, FieldB} \subseteq DOMAIN cache
    /\ \E i \in DOMAIN seen :
           /\ seen[i].inspected
           /\ FieldA \notin DOMAIN seen[i].before
           /\ FieldA \in DOMAIN seen[i].after
           /\ seen[i].body.kind = "json"
           /\ \E j \in DOMAIN seen[i].body.rootCauses :
                  ContainsSeq(seen[i].body.rootCauses[j], <<"a", KW>>)

\* the bracketed tokens of a reason: what stands between a "[" and the next
\* "]" with no bracket between them, one symbol at least
BracketedTokens(reason) ==
    {SubSeq(reason, q[1] + 1, q[2] - 1) : q \in
        {p \in (DOMAIN reason) \X (DOMAIN reason) :
            /\ p[1] + 1 < p[2]
            /\ reason[p[1]] = LB
            /\ reason[p[2]] = RB
            /\ \A m \in (p[1] + 1)..(p[2] - 1) : reason[m] \notin {LB, RB}}}

\* the root causes an inspection reads from a body
InspectedCauses(body) ==
    IF body.kind = "json" /\ body.errMembers = "rootCauseOnly"
    THEN {body.rootCauses[i] : i \in DOMAIN body.rootCauses} ELSE {}

\* a token that names a field: not empty and without a space once trimmed
TokenNamesField(token) == TrimSpace(token) # <<>> /\ ~ContainsSpace(TrimSpace(token))

\* the fields named by the tokens of the reasons with a signature phrase
FieldsNamed(body) ==
    {TrimSuffixKeyword(TrimSpace(t)) :
        t \in {x \in UNION {BracketedTokens(r) :
                              r \in {c \in InspectedCauses(body) : HasSignaturePhrase(c)}} :
                 TokenNamesField(x)}}

\* after the first attempt of the current loop, a second one was started
RetriedAfterFirst ==
    \/ Len(seen) >= 2
    \/ Len(seen) = 1 /\ pc \in {"search", "filter"}

InFilterPath == pc \in {"filter", "pairDone", "filtersDone"}

\* C26: in the search path a second attempt without hits has its body
\* inspected, which registers what the body names, and no third attempt
\* follows; in the filter path an attempt after the first leaves the cache
\* alone; in neither path does an attempt that returned hits (search) or
\* aggregations (filters) change the cache.
C26_WhenTheCacheChanges ==
    /\ Len(seen) <= 2
    /\ \A i \in DOMAIN seen :
           /\ InSearchPath /\ seen[i].resp.hits.isNil =>
                  DOMAIN seen[i].after
                      = DOMAIN seen[i].before \cup FieldsNamed(seen[i].body)
           /\ InSearchPath /\ ~seen[i].resp.hits.isNil =>
                  seen[i].after = seen[i].before
           /\ InFilterPath /\ i >= 2 => seen[i].after = seen[i].before
           /\ InFilterPath /\ DOMAIN seen[i].resp.aggs # {} =>
                  seen[i].after = seen[i].before

\* the second attempt of a search failed and its body added an entry
C26_Witness ==
    /\ InSearchPath
    /\ Len(seen) = 2
    /\ seen[2].resp.hits.isNil
    /\ DOMAIN seen[2].after # DOMAIN seen[2].before

\* every branch's search returns: no translation panics
SearchesReturn == branch # <<>> /\ \A e \in EntityKeys : ~ConfigPanics(fanQuery, e)

\* C27: when every branch's search returns the handler terminates with its
\* response; a branch that has sent does not send again; the response is
\* sent after one receive from each branch, and then no branch is left at
\* its send.
C27_FanOutTerminates ==
    /\ [][\A e \in DOMAIN branch :
             branch[e].pc = "done" => branch'[e].pc = "done" /\ joined' >= joined]_vars
    /\ [](fanResponse.status = 200 =>
             /\ joined = 7
             /\ \A e \in EntityKeys : branch[e].pc = "done")
    /\ (SearchesReturn ~> fanResponse.status = 200)

\* the response was sent after a branch had gone through a retry
C27_Witness ==
    /\ fanResponse.status = 200
    /\ \A e \in EntityKeys : branch[e].pc = "done"
    /\ \E e \in EntityKeys : Len(branch[e].docs) = 2

\* C28: what a forwarding task marshals holds, for every hit, the
\* explanation the backend returned, whether the task reads its copy before
\* or after the stripping loop has run on the caller's hits.
C28_ForwardedSnapshot ==
    \A i \in DOMAIN forwards :
        /\ Len(HitsRead(forwards[i].data, xs.resp).list) = Len(xs.raw.hits.list)
        /\ \A j \in DOMAIN xs.raw.hits.list :
               HitsRead(forwards[i].data, xs.resp).list[j].explanation
                   = xs.raw.hits.list[j].explanation
        /\ forwards[i].state # "started" =>
               /\ Len(forwards[i].sent.list) = Len(xs.raw.hits.list)
               /\ \A j \in DOMAIN xs.raw.hits.list :
                      forwards[i].sent.list[j].explanation
                          = xs.raw.hits.list[j].explanation

\* the task marshalled its copy after the caller's hits had been stripped
C28_Witness ==
    \E i \in DOMAIN forwards :
        /\ forwards[i].state = "posted"
        /\ forwards[i].stripped
        /\ forwards[i].sent.list[1].explanation = "expl"
        /\ xs.resp.hits.list[1].explanation = "{}"

\* two raw keys write the same output key
WritesCollide(aggs) ==
    \E k1, k2 \in DOMAIN aggs :
        k1 # k2 /\ WrittenKeys(aggs, k1) \cap WrittenKeys(aggs, k2) # {}

\* C29, as stated: no two raw keys write the same output key, and the
\* output is the same in whatever order the keys are visited.
C29_AsStated ==
    Flattened =>
        /\ ~WritesCollide(call.aggs)
        /\ \A order \in KeyOrders(call.aggs) :
               flattenAggs(call.aggs, order) = ret.once

\* what holds: the order matters only between raw keys that write the same
\* output key
C29_OrderFreeWithoutCollision ==
    Flattened /\ ~WritesCollide(call.aggs) =>
        \A order \in KeyOrders(call.aggs) :
            flattenAggs(call.aggs, order) = ret.once

====
